---- MODULE Spec2Model ----
(***************************************************************************)
(* Frame scheduling and GPU resource lifecycle of triangles::application.   *)
(*                                                                         *)
(* The render thread is modelled statement by statement (pc), so that the   *)
(* GPU queue, the window system and the geometry loader interleave with it. *)
(* The GPU is one in-order queue (single_graphics_present_queues): a        *)
(* submission signals its fence and its render-finished semaphore when it   *)
(* is executed, a present consumes the render-finished semaphore.  A        *)
(* submission carries the framebuffers its command buffers were recorded    *)
(* against; a command buffer is initial, executable or pending.             *)
(* Buffer sizes are counted in vertices.                                    *)
(***************************************************************************)
EXTENDS Integers, Sequences, FiniteSets, TLC

\* ------------------------------------------------------------------ bounds
c_max_frames_in_flight == 2

\* Window widths range over 0..MaxWidth, heights over 0..MaxHeight.
MaxWidth == 1
MaxHeight == 1
\* Number of images of a swapchain.
NumImages == 2
\* A loaded category holds at most MaxVerts vertices.
MaxVerts == 1
MaxTime == 2
MaxQueuedPresents == 2

\* The camera stays within MaxCamera steps of its first position.
MaxCamera == 10

\* At most MaxApplications application objects are constructed.
MaxApplications == 2

\* A physical device has at most MaxFamilies queue families.
MaxFamilies == 3

\* At most MaxRequested extensions and at most MaxRequested layers are requested.
MaxRequested == 2

\* A descriptor set layout is asked for with at most MaxBindings bindings, each
\* of at most MaxDescriptors descriptors.
MaxBindings == 2
MaxDescriptors == 2

\* --------------------------------------------------------------- constants
Slots == 0 .. (c_max_frames_in_flight - 1)
Images == 0 .. (NumImages - 1)
Extents == [width : 0 .. MaxWidth, height : 0 .. MaxHeight]
Categories == {"triangle", "broad", "bbox"}
\* The vertex data handed to load_input_data: the number of vertices of each
\* category.  A call gives all the categories, the triangles alone or nothing;
\* the categories it gives are of one length.
InputData ==
  {[c \in Categories |-> IF c \in given THEN n ELSE 0] :
     given \in {Categories, {"triangle"}, {}}, n \in 1 .. MaxVerts}
NoData == [c \in Categories |-> 0]

eSuccess == "eSuccess"
eSuboptimalKHR == "eSuboptimalKHR"
eErrorOutOfDateKHR == "eErrorOutOfDateKHR"

NoExtent == [width |-> 0, height |-> 0]
\* The local new_swapchain before its construction: no swapchain, no old handle.
NoSwapchain == [handle |-> -1, image_views |-> -1, extent |-> NoExtent, old |-> -1]
\* What a recording put into a command buffer: the framebuffer and image of its
\* render pass and, for the primitives, the copy, barrier and draw commands.
NoCommands == [framebuffer |-> -1, image |-> -1, cmds |-> << >>]
NoImguiCommands == [framebuffer |-> -1, image |-> -1]
EmptyDrawInfo == [loaded |-> FALSE, in_staging |-> FALSE, count |-> 0, size |-> 0,
                  staging_buffer |-> 0, buf |-> 0]

VARIABLES
  pc,                         \* position of the render thread
  m_curr_frame,               \* application::m_curr_frame
  in_flight_fence,            \* m_rendering_info[s].in_flight_fence: TRUE = signaled
  image_availible_semaphore,  \* m_rendering_info[s].image_availible_semaphore
  render_finished_semaphore,  \* m_rendering_info[s].render_finished_semaphore
  gpu_queue,                  \* queue operations submitted and not yet executed
  window_extent,              \* m_platform.window().extent()
  events_pending,             \* the window system holds an undelivered event
  m_swapchain,                \* application::m_swapchain
  live_swapchains,            \* handles of the VkSwapchainKHR objects that exist
  new_swapchain,              \* recreate_swap_chain: local new_swapchain
  rc_extent,                  \* recreate_swap_chain: local extent
  rc_from,                    \* call site of recreate_swap_chain
  m_depth_buffer,             \* application::m_depth_buffer
  m_framebuffers,             \* application::m_framebuffers
  m_imgui_framebuffers,       \* m_imgui_data.m_imgui_framebuffers
  m_primitives_command_buffers, \* per slot: "initial", "executable" or "pending"
  m_imgui_command_buffers,    \* per slot: "initial", "executable" or "pending"
  m_uniform_buffers,          \* per slot: "unwritten" or "written"
  recorded,                   \* what fill_command_buffer recorded in this call
  imgui_recorded,             \* what the GUI's fill_command_buffer recorded
  image_index,                \* render_frame: local image_index
  result_present,             \* render_frame: local result_present
  draw_info,                  \* m_triangle_draw_info, m_wireframe_*_draw_info
  m_data_loaded,              \* application::m_data_loaded
  lpc,                        \* position of the loader thread in load_input_data
  l_data,                     \* load_input_data: the spans of data not yet handled
  load_result,                \* how the last load_input_data call ended
  copied,                     \* categories whose copy and barrier were submitted
  staged_at_record,           \* categories in staging when the recording started
  thrown,                     \* the exception that left render_frame, or "none"
  trace,                      \* operations of the current render_frame call
  acquired,                   \* outcome of acquire in the current call
  start_frame,                \* m_curr_frame at the start of the current call
  m_first_frame,              \* application::m_first_frame
  m_prev_frame_start,         \* application::m_prev_frame_start
  physics_calls,              \* arguments of the physics_loop calls of this loop() call
  loop_starts,                \* start times of the previous and of this loop() call
  frames_submitted,           \* number of submitted frames, modulo the slot count
  other_lpc,                  \* position of a second thread in load_input_data
  other_l_data,               \* the second thread's spans of data not yet handled
  other_load_result,          \* how the second thread's last call ended
  m_tracked_keys,             \* input_handler::m_tracked_keys
  last_action,                \* per key, the action of the last key_callback call
  last_change,                \* per key, the last action that was a press or a release
  events,                     \* the map returned by the last poll()
  event_since_poll,           \* per key, what was delivered since the last poll():
                              \* "none", a "change" (press or release), or "other"
  poll_captured,              \* WantCaptureKeyboard as the last physics_loop read it
  poll_parity,                \* number of poll() calls, modulo 2
  WantCaptureKeyboard,        \* ImGui::GetIO().WantCaptureKeyboard
  m_mod_speed,                \* application::m_mod_speed
  m_camera,                   \* position of the camera along its direction
  m_instance,                 \* singleton_helper::m_instance: 0 is the null pointer
  live_applications,          \* the application objects that exist
  constructed,                \* number of application objects constructed so far
  get_result,                 \* what the last call of the helper returned or threw
  helper_call,                \* the last call of the helper
  helper_calls,               \* number of calls of the helper, modulo 2
  queue_families,             \* per queue family of the physical device: its support
  queues_pc,                  \* position in initialize_logical_device_queues
  chosen_graphics,            \* the local chosen_graphics
  chosen_present,             \* the local chosen_present
  reqs,                       \* the queue requests handed to the logical device
  supported_extensions,       \* ctx.enumerateInstanceExtensionProperties(), the names
  supported_layers,           \* ctx.enumerateInstanceLayerProperties(), the names
  requested_extensions,       \* the range ext_start .. ext_finish
  requested_layers,           \* the range layers_start .. layers_finish
  instance_pc,                \* position of the constructor of ezvk::instance
  vk_instance,                \* ezvk::instance::m_instance: the names it was created
                              \* with, or the null handle
  instance_error,             \* the exception that left the constructor
  p_binding_data,             \* the argument of create_decriptor_set_layout
  struct_constructors,        \* the build gives the Vulkan structs constructors
  bindings,                   \* the local bindings, handed to the layout
  layout_pc                   \* position of create_decriptor_set_layout

sync_vars == <<in_flight_fence, image_availible_semaphore, render_finished_semaphore>>
window_vars == <<window_extent, events_pending>>
swapchain_vars == <<m_swapchain, live_swapchains, new_swapchain>>
dependent_vars == <<m_depth_buffer, m_framebuffers, m_imgui_framebuffers>>
command_vars == <<m_primitives_command_buffers, m_imgui_command_buffers, m_uniform_buffers>>
load_vars == <<draw_info, m_data_loaded, lpc, l_data, load_result>>
frame_vars == <<image_index, result_present, acquired, start_frame, recorded,
                imgui_recorded, staged_at_record>>
rc_vars == <<rc_extent, rc_from>>
loop_vars == <<m_first_frame, m_prev_frame_start, physics_calls, loop_starts>>
other_load_vars == <<other_lpc, other_l_data, other_load_result>>
input_vars == <<m_tracked_keys, last_action, last_change, events, event_since_poll,
                poll_captured, poll_parity,
                WantCaptureKeyboard, m_mod_speed, m_camera>>
singleton_vars == <<m_instance, live_applications, constructed, get_result,
                    helper_call, helper_calls>>
queue_vars == <<queue_families, queues_pc, chosen_graphics, chosen_present, reqs>>
instance_vars == <<supported_extensions, supported_layers, requested_extensions,
                   requested_layers, instance_pc, vk_instance, instance_error>>
\* What is set up before the application is constructed, or once in its
\* constructor
layout_vars == <<p_binding_data, struct_constructors, bindings, layout_pc>>
platform_vars == <<queue_vars, instance_vars, layout_vars>>
ext_vars == <<loop_vars, other_load_vars, frames_submitted, input_vars, singleton_vars,
              platform_vars>>

vars == <<pc, m_curr_frame, sync_vars, gpu_queue, window_vars, swapchain_vars,
          dependent_vars, command_vars, load_vars, frame_vars, rc_vars, trace,
          copied, thrown, ext_vars>>

\* ----------------------------------------------------------------- helpers
IsZeroExtent(e) == e.width = 0 \/ e.height = 0

\* ezvk::swapchain{p_device, l_device, surface, extent, queues}: the swapchain,
\* the views of its images and its extent
swapchain(handle, extent) == [handle |-> handle, image_views |-> handle, extent |-> extent]

\* ezvk::depth_buffer{p_device, l_device, format, extent}
depth_buffer(sc) == [id |-> sc.image_views, extent |-> sc.extent]

\* ezvk::framebuffers{l_device, image_views, extent, render_pass, depth_image_view}
framebuffers(sc, depth) ==
  [id |-> sc.image_views, image_views |-> sc.image_views, extent |-> sc.extent,
   depth |-> depth.id]

\* ezvk::framebuffers{l_device, image_views, extent, render_pass}
imgui_framebuffers(sc) ==
  [id |-> sc.image_views, image_views |-> sc.image_views, extent |-> sc.extent]

Count(seq, x) == Cardinality({i \in 1 .. Len(seq) : seq[i] = x})
Has(seq, x) == \E i \in 1 .. Len(seq) : seq[i] = x
Before(seq, x, y) == \E i, j \in 1 .. Len(seq) : i < j /\ seq[i] = x /\ seq[j] = y

SubmitsOf(s) == {i \in 1 .. Len(gpu_queue) : gpu_queue[i].op = "submit" /\ gpu_queue[i].slot = s}
Outstanding == {i \in 1 .. Len(gpu_queue) : gpu_queue[i].op = "submit"}

\* load_input_data handles tr_vert, broad_vert and bbox_vert, in this order
LoadOrder == <<"triangle", "broad", "bbox">>

\* The loader thread is outside load_input_data
LoaderIdle == [step |-> "idle", cat |-> 0]

\* Where load_input_data goes on once it is done with the k-th category
\* ----------------------------------------------------------- input handler
\* input_handler::button_state
e_idle == "e_idle"
e_held_down == "e_held_down"
e_pressed == "e_pressed"

\* The actions GLFW hands to a key callback
GLFW_PRESS == "GLFW_PRESS"
GLFW_RELEASE == "GLFW_RELEASE"
GLFW_REPEAT == "GLFW_REPEAT"
KeyActions == {GLFW_PRESS, GLFW_RELEASE, GLFW_REPEAT}

\* Two of the movement keys, the speed key and a key that is not monitored
GLFW_KEY_W == "GLFW_KEY_W"
GLFW_KEY_S == "GLFW_KEY_S"
GLFW_KEY_LEFT_SHIFT == "GLFW_KEY_LEFT_SHIFT"
GLFW_KEY_ESCAPE == "GLFW_KEY_ESCAPE"
Keys == {GLFW_KEY_W, GLFW_KEY_S, GLFW_KEY_LEFT_SHIFT, GLFW_KEY_ESCAPE}
\* The keys whose events are remembered: one that is monitored for e_held_down
\* and the one that is monitored for e_pressed
ObservedKeys == {GLFW_KEY_W, GLFW_KEY_LEFT_SHIFT}

\* monitor(key, state_to_notify): the key is tracked, idle, and looked for in
\* the given state
monitor(tracked, key, state_to_notify) ==
  [k \in DOMAIN tracked \cup {key} |->
     IF k = key THEN [current_state |-> e_idle, look_for |-> state_to_notify]
                ELSE tracked[k]]

\* m_tracked_keys after initialize_input_hanlder
MonitoredKeys ==
  monitor(monitor(monitor(<< >>, GLFW_KEY_W, e_held_down),
                  GLFW_KEY_S, e_held_down),
          GLFW_KEY_LEFT_SHIFT, e_pressed)

\* key_callback(window, key, scancode, action, mods): the tracked keys after it
key_callback(tracked, key, action) ==
  IF key \notin DOMAIN tracked THEN tracked
  ELSE IF action = GLFW_PRESS
         THEN [tracked EXCEPT ![key].current_state = e_held_down]
  ELSE IF action = GLFW_RELEASE
         THEN [tracked EXCEPT ![key].current_state = e_pressed]
  ELSE tracked

\* poll(): the returned map, a key in the state it is looked for
poll_result(tracked) ==
  [k \in {q \in DOMAIN tracked : tracked[q].current_state = tracked[q].look_for}
     |-> tracked[k].current_state]

\* Faulty variant: a reported release is not reset.
poll_tracked_NoReset(tracked) == tracked

\* poll(): the tracked keys after it, a reported e_pressed is reset to e_idle
poll_tracked(tracked) ==
  [k \in DOMAIN tracked |->
     IF /\ tracked[k].current_state = tracked[k].look_for
        /\ tracked[k].current_state = e_pressed
       THEN [tracked[k] EXCEPT !.current_state = e_idle]
       ELSE tracked[k]]

AfterCategory(k) ==
  IF k < Len(LoadOrder) THEN [step |-> "write", cat |-> k + 1]
                        ELSE [step |-> "store", cat |-> 0]

\* -------------------------------------------------------------------- Init
\* The application after its construction
AppInit ==
  /\ pc = "idle"
  /\ m_curr_frame = 0
  /\ in_flight_fence = [s \in Slots |-> TRUE]
  /\ image_availible_semaphore = [s \in Slots |-> FALSE]
  /\ render_finished_semaphore = [s \in Slots |-> FALSE]
  /\ gpu_queue = << >>
  /\ window_extent = [width |-> MaxWidth, height |-> MaxHeight]
  /\ events_pending = FALSE
  /\ m_swapchain = swapchain(0, window_extent)
  /\ live_swapchains = {0}
  /\ new_swapchain = NoSwapchain
  /\ rc_extent = NoExtent
  /\ rc_from = "none"
  /\ m_depth_buffer = depth_buffer(m_swapchain)
  /\ m_framebuffers = framebuffers(m_swapchain, m_depth_buffer)
  /\ m_imgui_framebuffers = imgui_framebuffers(m_swapchain)
  /\ m_primitives_command_buffers = [s \in Slots |-> "initial"]
  /\ m_imgui_command_buffers = [s \in Slots |-> "initial"]
  /\ recorded = NoCommands
  /\ imgui_recorded = NoImguiCommands
  /\ m_uniform_buffers = [s \in Slots |-> "unwritten"]
  /\ image_index = 0
  /\ result_present = eSuccess
  /\ draw_info = [c \in Categories |-> EmptyDrawInfo]
  /\ m_data_loaded = FALSE
  /\ lpc = LoaderIdle
  /\ l_data = NoData
  /\ load_result = "none"
  /\ copied = {}
  /\ staged_at_record = {}
  /\ thrown = "none"
  /\ trace = << >>
  /\ acquired = "none"
  /\ start_frame = 0
  /\ m_first_frame = TRUE
  /\ m_prev_frame_start = 0
  /\ physics_calls = << >>
  /\ loop_starts = << >>
  /\ frames_submitted = 0
  /\ other_lpc = LoaderIdle
  /\ other_l_data = NoData
  /\ other_load_result = "none"

\* The input handler after initialize_input_hanlder: every monitored key is
\* idle, no event was delivered, nothing was polled
HandlerInit ==
  /\ m_tracked_keys = MonitoredKeys
  /\ last_action = [k \in ObservedKeys |-> "none"]
  /\ events = << >>
  /\ last_change = [k \in ObservedKeys |-> "none"]
  /\ event_since_poll = [k \in ObservedKeys |-> "none"]
  /\ poll_captured = FALSE
  /\ poll_parity = 0
  /\ WantCaptureKeyboard = FALSE
  /\ m_mod_speed = FALSE
  /\ m_camera = 0

\* The outcome of a call of the helper: the application it returned a
\* reference to (0: none), or the exception it threw
Returned(ref) == [thrown |-> "none", ref |-> ref]
Threw(exception) == [thrown |-> exception, ref |-> 0]

\* The helper before the first call: no application exists
HelperInit ==
  /\ m_instance = 0
  /\ live_applications = {}
  /\ constructed = 0
  /\ get_result = Returned(0)
  /\ helper_call = "none"
  /\ helper_calls = 0

\* The helper after the call get(platform) that constructed the application
HelperInitialized ==
  /\ m_instance = 1
  /\ live_applications = {1}
  /\ constructed = 1
  /\ get_result = Returned(1)
  /\ helper_call = "get(platform)"
  /\ helper_calls = 1

\* A device with one family for graphics and present, after
\* initialize_logical_device_queues
QueuesInitialized ==
  /\ queue_families = <<[graphics |-> TRUE, present |-> TRUE]>>
  /\ queues_pc = "done"
  /\ chosen_graphics = 0
  /\ chosen_present = 0
  /\ reqs = <<[queueFamilyIndex |-> 0, queueCount |-> 1]>>

\* No exception, and the null handle of vk::raii::Instance
NoError == [thrown |-> "none", missing |-> << >>]
NullInstance == [created |-> FALSE, extensions |-> << >>, layers |-> << >>]

\* The Vulkan instance of the platform, created with nothing requested
InstanceCreated ==
  /\ supported_extensions = {}
  /\ supported_layers = {}
  /\ requested_extensions = << >>
  /\ requested_layers = << >>
  /\ instance_pc = "done"
  /\ vk_instance = [created |-> TRUE, extensions |-> << >>, layers |-> << >>]
  /\ instance_error = NoError

\* No descriptor set layout was asked for
NoLayout ==
  /\ p_binding_data = << >>
  /\ struct_constructors = FALSE
  /\ bindings = << >>
  /\ layout_pc = "idle"

Init ==
  /\ AppInit
  /\ HandlerInit
  /\ HelperInitialized
  /\ QueuesInitialized
  /\ InstanceCreated
  /\ NoLayout

\* The process before the application is constructed
SingletonInit ==
  /\ AppInit
  /\ HandlerInit
  /\ HelperInit
  /\ QueuesInitialized
  /\ InstanceCreated
  /\ NoLayout

\* ------------------------------------------------------------ render_frame
\* Faulty variant: the catch block of acquire does not return.
AfterRecreate_FallThrough == IF rc_from = "acquire" THEN "record" ELSE "advance"

\* Faulty variant: the catch block of acquire goes on to the slot advance.
AfterRecreate_Advance == "advance"

\* What render_frame does once recreate_swap_chain has returned: the catch
\* block of acquire returns, the present path falls through to the slot advance.
AfterRecreate == IF rc_from = "acquire" THEN "return" ELSE "advance"

\* render_frame is entered: current_frame_data = m_rendering_info.at(m_curr_frame)
RenderFrame ==
  /\ pc = "idle"
  /\ pc' = "wait_fence"
  /\ start_frame' = m_curr_frame
  /\ UNCHANGED <<m_curr_frame, sync_vars, gpu_queue, window_vars, swapchain_vars,
                 dependent_vars, command_vars, load_vars, image_index, result_present,
                 acquired, recorded, imgui_recorded, rc_vars, trace,
                 copied, thrown, staged_at_record>>
  /\ UNCHANGED ext_vars

\* Faulty variant: render_frame goes on without waiting for the slot's fence.
WaitForFences_NoWait ==
  /\ pc = "wait_fence"
  /\ pc' = "acquire"
  /\ trace' = Append(trace, "wait_fence")
  /\ UNCHANGED <<m_curr_frame, sync_vars, gpu_queue, window_vars, swapchain_vars,
                 dependent_vars, command_vars, load_vars, frame_vars, rc_vars,
                 copied, thrown>>
  /\ UNCHANGED ext_vars

\* Faulty variant: the fence is reset right after the wait, before the acquire.
WaitForFences_ResetEarly ==
  /\ pc = "wait_fence"
  /\ in_flight_fence[m_curr_frame]
  /\ in_flight_fence' = [in_flight_fence EXCEPT ![m_curr_frame] = FALSE]
  /\ pc' = "acquire"
  /\ trace' = Append(trace, "wait_fence")
  /\ UNCHANGED <<m_curr_frame, image_availible_semaphore, render_finished_semaphore,
                 gpu_queue, window_vars, swapchain_vars, dependent_vars, command_vars,
                 load_vars, frame_vars, rc_vars,
                 copied, thrown>>
  /\ UNCHANGED ext_vars

\* waitForFences({in_flight_fence}, VK_TRUE, UINT64_MAX)
WaitForFences ==
  /\ pc = "wait_fence"
  /\ in_flight_fence[m_curr_frame]
  /\ pc' = "acquire"
  /\ trace' = Append(trace, "wait_fence")
  /\ UNCHANGED <<m_curr_frame, sync_vars, gpu_queue, window_vars, swapchain_vars,
                 dependent_vars, command_vars, load_vars, frame_vars, rc_vars,
                 copied, thrown>>
  /\ UNCHANGED ext_vars

\* Faulty variant: OutOfDateKHRError is not caught.
AcquireNextImage_NoCatch ==
  /\ pc = "acquire"
  /\ \/ \E res \in {eSuccess, eSuboptimalKHR}, img \in Images :
          /\ image_index' = img
          /\ acquired' = res
          /\ image_availible_semaphore' =
               [image_availible_semaphore EXCEPT ![m_curr_frame] = TRUE]
          /\ pc' = "record"
          /\ trace' = Append(trace, "acquire")
          /\ UNCHANGED thrown
     \/ /\ acquired' = "none"
        /\ pc' = "error"
        /\ thrown' = "OutOfDateKHRError"
        /\ trace' = << >>
        /\ UNCHANGED <<image_index, image_availible_semaphore>>
  /\ UNCHANGED <<m_curr_frame, in_flight_fence, render_finished_semaphore, gpu_queue,
                 window_vars, swapchain_vars, dependent_vars, command_vars, load_vars,
                 result_present, start_frame, recorded, imgui_recorded, rc_vars,
                 copied, staged_at_record>>
  /\ UNCHANGED ext_vars

\* acquireNextImage2KHR(acquire_info).second, and the catch of OutOfDateKHRError
AcquireNextImage ==
  /\ pc = "acquire"
  /\ \/ \E res \in {eSuccess, eSuboptimalKHR}, img \in Images :
          /\ image_index' = img
          /\ acquired' = res
          /\ image_availible_semaphore' =
               [image_availible_semaphore EXCEPT ![m_curr_frame] = TRUE]
          /\ pc' = "record"
          /\ trace' = Append(trace, "acquire")
          /\ UNCHANGED rc_from
     \/ /\ acquired' = eErrorOutOfDateKHR
        /\ pc' = "rc_enter"
        /\ rc_from' = "acquire"
        /\ trace' = trace \o <<"acquire", "recreate">>
        /\ UNCHANGED <<image_index, image_availible_semaphore>>
  /\ UNCHANGED <<m_curr_frame, in_flight_fence, render_finished_semaphore, gpu_queue,
                 window_vars, swapchain_vars, dependent_vars, command_vars, load_vars,
                 result_present, start_frame, recorded, imgui_recorded, rc_extent,
                 copied, thrown, staged_at_record>>
  /\ UNCHANGED ext_vars

\* submit_copy is applied to the triangle, bbox and broad draw infos, in this order
PromoteOrder == <<"triangle", "bbox", "broad">>

\* Faulty variant: the copy is recorded without its barrier.
CopyCommands_NoBarrier(c) ==
  IF draw_info[c].in_staging
    THEN <<[cmd |-> "copyBuffer", cat |-> c, count |-> draw_info[c].size,
            src |-> draw_info[c].staging_buffer]>>
    ELSE << >>

\* submit_copy + copy_to_device_memory: the commands recorded for one category
CopyCommands(c) ==
  IF draw_info[c].in_staging
    THEN <<[cmd |-> "copyBuffer", cat |-> c, count |-> draw_info[c].size,
            src |-> draw_info[c].staging_buffer],
           [cmd |-> "pipelineBarrier", cat |-> c, count |-> draw_info[c].size,
            src |-> 0]>>
    ELSE << >>

\* Faulty variant: the promotion does not set the loaded flag.
Promoted_NotLoaded(info) ==
  IF info.in_staging
    THEN [info EXCEPT !.buf = info.size, !.in_staging = FALSE]
    ELSE info

\* submit_copy + copy_to_device_memory: the draw info after the promotion attempt
Promoted(info) ==
  IF info.in_staging
    THEN [info EXCEPT !.buf = info.size, !.in_staging = FALSE, !.loaded = TRUE]
    ELSE info

\* Faulty variant: a category is drawn as soon as it is staged.
DrawCommands_Staged(info, c, enabled) ==
  IF enabled /\ (info[c].loaded \/ info[c].in_staging)
    THEN <<[cmd |-> "draw", cat |-> c, count |-> info[c].count, src |-> 0]>>
    ELSE << >>

\* submit_draw_info: bind and draw a category that is loaded
DrawCommands(info, c, enabled) ==
  IF enabled /\ info[c].loaded
    THEN <<[cmd |-> "draw", cat |-> c, count |-> info[c].count, src |-> 0]>>
    ELSE << >>

\* One submit_copy(info) of fill_command_buffer: what it appends to the command
\* buffer, to the draw infos and to the trace
SubmitCopy(c) ==
  /\ draw_info' = [draw_info EXCEPT ![c] = Promoted(draw_info[c])]
  /\ recorded' = [recorded EXCEPT !.cmds = recorded.cmds \o CopyCommands(c)]
  /\ trace' = IF draw_info[c].in_staging THEN Append(trace, "promote") ELSE trace

\* application::fill_command_buffer(m_primitives_command_buffers[m_curr_frame], ...):
\* cmd.reset(), cmd.begin() ...
FillCommandBuffer ==
  /\ pc = "record"
  /\ recorded' = [framebuffer |-> -1, image |-> image_index, cmds |-> << >>]
  /\ staged_at_record' = {c \in Categories : draw_info[c].in_staging}
  /\ m_primitives_command_buffers' =
       [m_primitives_command_buffers EXCEPT ![m_curr_frame] = "recording"]
  /\ trace' = Append(trace, "record")
  /\ pc' = "copy_triangle"
  /\ UNCHANGED <<m_curr_frame, sync_vars, gpu_queue, window_vars, swapchain_vars,
                 dependent_vars, m_imgui_command_buffers, m_uniform_buffers,
                 load_vars, image_index, result_present, acquired, start_frame,
                 imgui_recorded, rc_vars, copied, thrown>>
  /\ UNCHANGED ext_vars

\* ... submit_copy(m_triangle_draw_info) ...
SubmitCopyTriangle ==
  /\ pc = "copy_triangle"
  /\ SubmitCopy(PromoteOrder[1])
  /\ pc' = "copy_bbox"
  /\ UNCHANGED <<m_curr_frame, sync_vars, gpu_queue, window_vars, swapchain_vars,
                 dependent_vars, command_vars, m_data_loaded, lpc, l_data, load_result,
                 image_index, result_present, acquired, start_frame, imgui_recorded,
                 staged_at_record, rc_vars, copied, thrown>>
  /\ UNCHANGED ext_vars

\* ... submit_copy(m_wireframe_bbox_draw_info) ...
SubmitCopyBbox ==
  /\ pc = "copy_bbox"
  /\ SubmitCopy(PromoteOrder[2])
  /\ pc' = "copy_broad"
  /\ UNCHANGED <<m_curr_frame, sync_vars, gpu_queue, window_vars, swapchain_vars,
                 dependent_vars, command_vars, m_data_loaded, lpc, l_data, load_result,
                 image_index, result_present, acquired, start_frame, imgui_recorded,
                 staged_at_record, rc_vars, copied, thrown>>
  /\ UNCHANGED ext_vars

\* ... submit_copy(m_wireframe_broad_draw_info) ...
SubmitCopyBroad ==
  /\ pc = "copy_broad"
  /\ SubmitCopy(PromoteOrder[3])
  /\ pc' = "draw"
  /\ UNCHANGED <<m_curr_frame, sync_vars, gpu_queue, window_vars, swapchain_vars,
                 dependent_vars, command_vars, m_data_loaded, lpc, l_data, load_result,
                 image_index, result_present, acquired, start_frame, imgui_recorded,
                 staged_at_record, rc_vars, copied, thrown>>
  /\ UNCHANGED ext_vars

\* ... the render pass on m_framebuffers[image_index], the descriptor set, the
\* draws of the loaded categories, cmd.end()
RecordDraws ==
  /\ pc = "draw"
  /\ \E draw_broad_phase, draw_bbox \in BOOLEAN :
       recorded' = [recorded EXCEPT
                      !.framebuffer = m_framebuffers.id,
                      !.cmds = recorded.cmds
                                 \o DrawCommands(draw_info, "triangle", TRUE)
                                 \o DrawCommands(draw_info, "broad", draw_broad_phase)
                                 \o DrawCommands(draw_info, "bbox", draw_bbox)]
  /\ m_primitives_command_buffers' =
       [m_primitives_command_buffers EXCEPT ![m_curr_frame] = "executable"]
  /\ pc' = "record_gui"
  /\ UNCHANGED <<m_curr_frame, sync_vars, gpu_queue, window_vars, swapchain_vars,
                 dependent_vars, m_imgui_command_buffers, m_uniform_buffers,
                 load_vars, image_index, result_present, acquired, start_frame,
                 imgui_recorded, staged_at_record, rc_vars, trace, copied, thrown>>
  /\ UNCHANGED ext_vars

\* imgui_related_data::fill_command_buffer(m_imgui_command_buffers[m_curr_frame], ...)
ImguiFillCommandBuffer ==
  /\ pc = "record_gui"
  /\ m_imgui_command_buffers' =
       [m_imgui_command_buffers EXCEPT ![m_curr_frame] = "executable"]
  /\ imgui_recorded' = [framebuffer |-> m_imgui_framebuffers.id, image |-> image_index]
  /\ staged_at_record' = {}
  /\ pc' = "write_ubo"
  /\ trace' = Append(trace, "record_gui")
  /\ UNCHANGED <<m_curr_frame, sync_vars, gpu_queue, window_vars, swapchain_vars,
                 dependent_vars, m_primitives_command_buffers, m_uniform_buffers,
                 load_vars, image_index, result_present, acquired, start_frame,
                 recorded, rc_vars, copied, thrown>>
  /\ UNCHANGED ext_vars

\* Faulty variant: the fence reset is left out.
WriteUniformBuffer_SkipsReset ==
  /\ pc = "write_ubo"
  /\ m_uniform_buffers' = [m_uniform_buffers EXCEPT ![m_curr_frame] = "written"]
  /\ pc' = "submit"
  /\ trace' = Append(trace, "write_ubo")
  /\ UNCHANGED <<m_curr_frame, sync_vars, gpu_queue, window_vars, swapchain_vars,
                 dependent_vars, m_primitives_command_buffers, m_imgui_command_buffers,
                 load_vars, frame_vars, rc_vars,
                 copied, thrown>>
  /\ UNCHANGED ext_vars

\* m_uniform_buffers[m_curr_frame].copy_to_device(uniform_buffer)
WriteUniformBuffer ==
  /\ pc = "write_ubo"
  /\ m_uniform_buffers' = [m_uniform_buffers EXCEPT ![m_curr_frame] = "written"]
  /\ pc' = "reset_fence"
  /\ trace' = Append(trace, "write_ubo")
  /\ UNCHANGED <<m_curr_frame, sync_vars, gpu_queue, window_vars, swapchain_vars,
                 dependent_vars, m_primitives_command_buffers, m_imgui_command_buffers,
                 load_vars, frame_vars, rc_vars,
                 copied, thrown>>
  /\ UNCHANGED ext_vars

\* Faulty variant: the fence of the other slot is reset.
ResetFences_OtherSlot ==
  /\ pc = "reset_fence"
  /\ in_flight_fence' =
       [in_flight_fence EXCEPT ![(m_curr_frame + 1) % c_max_frames_in_flight] = FALSE]
  /\ pc' = "submit"
  /\ trace' = Append(trace, "reset_fence")
  /\ UNCHANGED <<m_curr_frame, image_availible_semaphore, render_finished_semaphore,
                 gpu_queue, window_vars, swapchain_vars, dependent_vars, command_vars,
                 load_vars, frame_vars, rc_vars,
                 copied, thrown>>
  /\ UNCHANGED ext_vars

\* m_l_device().resetFences(*current_frame_data.in_flight_fence)
ResetFences ==
  /\ pc = "reset_fence"
  /\ in_flight_fence' = [in_flight_fence EXCEPT ![m_curr_frame] = FALSE]
  /\ pc' = "submit"
  /\ trace' = Append(trace, "reset_fence")
  /\ UNCHANGED <<m_curr_frame, image_availible_semaphore, render_finished_semaphore,
                 gpu_queue, window_vars, swapchain_vars, dependent_vars, command_vars,
                 load_vars, frame_vars, rc_vars,
                 copied, thrown>>
  /\ UNCHANGED ext_vars

\* The binding of the uniform block that the vertex shader reads
c_shader_uniform_binding == 0

\* m_descriptor_set = {l_device, m_uniform_buffers, pool, descriptor_set_bindings}:
\* the one descriptor set has a binding for each uniform buffer, binding b
\* referring to m_uniform_buffers[b]
UniformBufferOfBinding(b) == b

\* The uniform buffer that the draws of a command buffer read: every recording
\* binds the same descriptor set
UniformBufferRead == UniformBufferOfBinding(c_shader_uniform_binding)

\* The categories whose copy and barrier are in a sequence of commands
CopiedIn(cmds) ==
  {c \in Categories :
     \E i, j \in 1 .. Len(cmds) :
        /\ i < j
        /\ cmds[i].cmd = "copyBuffer" /\ cmds[i].cat = c
        /\ cmds[j].cmd = "pipelineBarrier" /\ cmds[j].cat = c}

\* graphics().queue().submit(submit_info, *current_frame_data.in_flight_fence):
\* what was recorded is in the queue from here on
QueueSubmit ==
  /\ pc = "submit"
  /\ gpu_queue' = Append(gpu_queue, [op |-> "submit", slot |-> m_curr_frame,
                                     swapchain |-> -1,
                                     framebuffer |-> recorded.framebuffer,
                                     imgui_framebuffer |-> imgui_recorded.framebuffer,
                                     ubo |-> UniformBufferRead])
  /\ copied' = copied \cup CopiedIn(recorded.cmds)
  /\ recorded' = NoCommands
  /\ imgui_recorded' = NoImguiCommands
  /\ m_primitives_command_buffers' =
       [m_primitives_command_buffers EXCEPT ![m_curr_frame] = "pending"]
  /\ m_imgui_command_buffers' =
       [m_imgui_command_buffers EXCEPT ![m_curr_frame] = "pending"]
  /\ pc' = "present"
  /\ trace' = Append(trace, "submit")
  /\ UNCHANGED <<m_curr_frame, sync_vars, window_vars, swapchain_vars, dependent_vars,
                 m_uniform_buffers, load_vars, image_index, result_present, acquired,
                 start_frame, staged_at_record, rc_vars, thrown>>
  /\ frames_submitted' = (frames_submitted + 1) % c_max_frames_in_flight
  /\ UNCHANGED <<loop_vars, other_load_vars>>
  /\ UNCHANGED <<input_vars, singleton_vars, platform_vars>>

\* Faulty variant: a suboptimal present does not rebuild.
NeedsRebuild_OutOfDateOnly(res) == res = eErrorOutOfDateKHR

\* Whether a present result makes render_frame rebuild the swapchain
NeedsRebuild(res) == res = eSuboptimalKHR \/ res = eErrorOutOfDateKHR

\* present().queue().presentKHR(present_info), its catch, and the test of the
\* result; image_index is not read after the present.
QueuePresent ==
  /\ pc = "present"
  /\ \E res \in {eSuccess, eSuboptimalKHR, eErrorOutOfDateKHR} :
       /\ result_present' = res
       /\ image_index' = 0
       /\ IF NeedsRebuild(res)
            THEN /\ pc' = "rc_enter"
                 /\ rc_from' = "present"
                 /\ trace' = trace \o <<"present", "recreate">>
            ELSE /\ pc' = "advance"
                 /\ trace' = Append(trace, "present")
                 /\ UNCHANGED rc_from
  /\ gpu_queue' = Append(gpu_queue, [op |-> "present", slot |-> m_curr_frame,
                                     swapchain |-> m_swapchain.handle,
                                     framebuffer |-> -1, imgui_framebuffer |-> -1,
                                     ubo |-> -1])
  /\ UNCHANGED <<m_curr_frame, sync_vars, window_vars, swapchain_vars, dependent_vars,
                 command_vars, load_vars, acquired, start_frame, recorded,
                 imgui_recorded, rc_extent,
                 copied, thrown, staged_at_record>>
  /\ UNCHANGED ext_vars

\* Faulty variant: the slot index is not advanced.
AdvanceFrame_Stay ==
  /\ pc = "advance"
  /\ m_curr_frame' = m_curr_frame
  /\ pc' = "return"
  /\ trace' = Append(trace, "advance")
  /\ UNCHANGED <<sync_vars, gpu_queue, window_vars, swapchain_vars, dependent_vars,
                 command_vars, load_vars, frame_vars, rc_vars,
                 copied, thrown>>
  /\ UNCHANGED ext_vars

\* m_curr_frame = (m_curr_frame + 1) % c_max_frames_in_flight, and the return
AdvanceFrame ==
  /\ pc = "advance"
  /\ m_curr_frame' = (m_curr_frame + 1) % c_max_frames_in_flight
  /\ pc' = "return"
  /\ trace' = Append(trace, "advance")
  /\ UNCHANGED <<sync_vars, gpu_queue, window_vars, swapchain_vars, dependent_vars,
                 command_vars, load_vars, frame_vars, rc_vars,
                 copied, thrown>>
  /\ UNCHANGED ext_vars

\* render_frame returns to loop(): its locals are gone
Return ==
  /\ pc = "return"
  /\ pc' = "idle"
  /\ trace' = << >>
  /\ image_index' = 0
  /\ result_present' = eSuccess
  /\ acquired' = "none"
  /\ start_frame' = m_curr_frame
  /\ recorded' = NoCommands
  /\ imgui_recorded' = NoImguiCommands
  /\ UNCHANGED <<m_curr_frame, sync_vars, gpu_queue, window_vars, swapchain_vars,
                 dependent_vars, command_vars, load_vars, rc_vars,
                 copied, thrown, staged_at_record>>
  /\ UNCHANGED ext_vars

\* ----------------------------------------------------- recreate_swap_chain
\* Faulty variant: the loop runs only while both dimensions are zero.
LoopTarget_And(extent) ==
  IF extent.width = 0 /\ extent.height = 0 THEN "rc_read" ELSE "rc_create"

\* The loop condition: while (extent.width == 0 || extent.height == 0)
LoopTarget(extent) == IF IsZeroExtent(extent) THEN "rc_read" ELSE "rc_create"

\* auto extent = m_platform.window().extent(), and the first test of the loop
RcEnter ==
  /\ pc = "rc_enter"
  /\ rc_extent' = window_extent
  /\ pc' = LoopTarget(window_extent)
  /\ UNCHANGED <<m_curr_frame, sync_vars, gpu_queue, window_vars, swapchain_vars,
                 dependent_vars, command_vars, load_vars, frame_vars, rc_from, trace,
                 copied, thrown>>
  /\ UNCHANGED ext_vars

\* Loop body, first statement: extent = m_platform.window().extent()
RcReadExtent ==
  /\ pc = "rc_read"
  /\ rc_extent' = window_extent
  /\ pc' = "rc_wait"
  /\ UNCHANGED <<m_curr_frame, sync_vars, gpu_queue, window_vars, swapchain_vars,
                 dependent_vars, command_vars, load_vars, frame_vars, rc_from, trace,
                 copied, thrown>>
  /\ UNCHANGED ext_vars

\* Loop body, second statement: glfwWaitEvents() sleeps until an event is
\* available and processes it; then the loop condition is tested again.
\* The trace notes the first wait of a call.
RcWaitEvents ==
  /\ pc = "rc_wait"
  /\ events_pending
  /\ events_pending' = FALSE
  /\ pc' = LoopTarget(rc_extent)
  /\ trace' = IF Has(trace, "wait_events") THEN trace ELSE Append(trace, "wait_events")
  /\ UNCHANGED <<m_curr_frame, sync_vars, gpu_queue, window_extent, swapchain_vars,
                 dependent_vars, command_vars, load_vars, frame_vars, rc_vars,
                 copied, thrown>>
  /\ UNCHANGED ext_vars

\* The handle the driver gives to a new swapchain: one that no existing
\* swapchain has (the handle of a destroyed swapchain may be given again).
FreshHandle ==
  CHOOSE h \in 0 .. Cardinality(live_swapchains) :
    h \notin live_swapchains /\ \A g \in 0 .. Cardinality(live_swapchains) :
                                   g \notin live_swapchains => h <= g

\* Faulty variant: the old swapchain is destroyed before the new one is created.
RcCreateSwapchain_DestroyFirst ==
  /\ pc = "rc_create"
  /\ \/ /\ new_swapchain' = [handle |-> FreshHandle, image_views |-> FreshHandle,
                              extent |-> rc_extent, old |-> m_swapchain.handle]
        /\ live_swapchains' = (live_swapchains \ {m_swapchain.handle}) \cup {FreshHandle}
        /\ pc' = "rc_wait_idle"
        /\ UNCHANGED <<frame_vars, rc_vars, trace, thrown>>
     \/ /\ pc' = "error"
        /\ live_swapchains' = live_swapchains \ {m_swapchain.handle}
        /\ image_index' = 0
        /\ result_present' = eSuccess
        /\ acquired' = "none"
        /\ recorded' = NoCommands
        /\ imgui_recorded' = NoImguiCommands
        /\ rc_extent' = NoExtent
        /\ rc_from' = "none"
        /\ trace' = << >>
        /\ thrown' = "SystemError"
        /\ UNCHANGED <<new_swapchain, start_frame, staged_at_record>>
  /\ UNCHANGED <<m_curr_frame, sync_vars, gpu_queue, window_vars, m_swapchain,
                 dependent_vars, command_vars, load_vars, copied>>
  /\ UNCHANGED ext_vars

\* auto new_swapchain = ezvk::swapchain{..., extent, ..., *old_swapchain};
\* the constructor throws when the driver fails to create the swapchain, and
\* the exception leaves recreate_swap_chain and render_frame: their locals end.
RcCreateSwapchain ==
  /\ pc = "rc_create"
  /\ \/ /\ new_swapchain' = [handle |-> FreshHandle, image_views |-> FreshHandle,
                              extent |-> rc_extent, old |-> m_swapchain.handle]
        /\ live_swapchains' = live_swapchains \cup {FreshHandle}
        /\ pc' = "rc_wait_idle"
        /\ UNCHANGED <<frame_vars, rc_vars, trace, thrown>>
     \/ /\ pc' = "error"
        /\ image_index' = 0
        /\ result_present' = eSuccess
        /\ acquired' = "none"
        /\ recorded' = NoCommands
        /\ imgui_recorded' = NoImguiCommands
        /\ rc_extent' = NoExtent
        /\ rc_from' = "none"
        /\ trace' = << >>
        /\ thrown' = "SystemError"
        /\ UNCHANGED <<new_swapchain, live_swapchains, start_frame, staged_at_record>>
  /\ UNCHANGED <<m_curr_frame, sync_vars, gpu_queue, window_vars, m_swapchain,
                 dependent_vars, command_vars, load_vars, copied>>
  /\ UNCHANGED ext_vars

\* Faulty variant: the rebuild does not wait for the device to be idle.
RcWaitIdle_NoWait ==
  /\ pc = "rc_wait_idle"
  /\ pc' = "rc_destroy"
  /\ UNCHANGED <<m_curr_frame, sync_vars, gpu_queue, window_vars, swapchain_vars,
                 dependent_vars, command_vars, load_vars, frame_vars, rc_vars, trace,
                 copied, thrown>>
  /\ UNCHANGED ext_vars

\* m_l_device().waitIdle()
RcWaitIdle ==
  /\ pc = "rc_wait_idle"
  /\ gpu_queue = << >>
  /\ pc' = "rc_destroy"
  /\ UNCHANGED <<m_curr_frame, sync_vars, gpu_queue, window_vars, swapchain_vars,
                 dependent_vars, command_vars, load_vars, frame_vars, rc_vars, trace,
                 copied, thrown>>
  /\ UNCHANGED ext_vars

\* m_swapchain().clear()
RcDestroyOld ==
  /\ pc = "rc_destroy"
  /\ live_swapchains' = live_swapchains \ {m_swapchain.handle}
  /\ m_swapchain' = [m_swapchain EXCEPT !.handle = -1]
  /\ pc' = "rc_move"
  /\ UNCHANGED <<m_curr_frame, sync_vars, gpu_queue, window_vars, new_swapchain,
                 dependent_vars, command_vars, load_vars, frame_vars, rc_vars, trace,
                 copied, thrown>>
  /\ UNCHANGED ext_vars

\* m_swapchain = std::move(new_swapchain)
RcMoveSwapchain ==
  /\ pc = "rc_move"
  /\ m_swapchain' = swapchain(new_swapchain.handle, new_swapchain.extent)
  /\ new_swapchain' = NoSwapchain
  /\ pc' = "rc_depth"
  /\ UNCHANGED <<m_curr_frame, sync_vars, gpu_queue, window_vars, live_swapchains,
                 dependent_vars, command_vars, load_vars, frame_vars, rc_vars, trace,
                 copied, thrown>>
  /\ UNCHANGED ext_vars

\* Faulty variant: the rebuild keeps the depth buffer of the old swapchain.
RcDepthBuffer_Skip ==
  /\ pc = "rc_depth"
  /\ pc' = "rc_framebuffers"
  /\ UNCHANGED <<m_curr_frame, sync_vars, gpu_queue, window_vars, swapchain_vars,
                 dependent_vars, command_vars, load_vars, frame_vars, rc_vars, trace,
                 copied, thrown>>
  /\ UNCHANGED ext_vars

\* m_depth_buffer = {p_device, l_device, depth_format, m_swapchain.extent()}
RcDepthBuffer ==
  /\ pc = "rc_depth"
  /\ m_depth_buffer' = depth_buffer(m_swapchain)
  /\ pc' = "rc_framebuffers"
  /\ UNCHANGED <<m_curr_frame, sync_vars, gpu_queue, window_vars, swapchain_vars,
                 m_framebuffers, m_imgui_framebuffers, command_vars, load_vars,
                 frame_vars, rc_vars, trace,
                 copied, thrown>>
  /\ UNCHANGED ext_vars

\* m_framebuffers = {l_device, image_views, extent, render_pass, depth image view}
RcFramebuffers ==
  /\ pc = "rc_framebuffers"
  /\ m_framebuffers' = framebuffers(m_swapchain, m_depth_buffer)
  /\ pc' = "rc_imgui_framebuffers"
  /\ UNCHANGED <<m_curr_frame, sync_vars, gpu_queue, window_vars, swapchain_vars,
                 m_depth_buffer, m_imgui_framebuffers, command_vars, load_vars,
                 frame_vars, rc_vars, trace,
                 copied, thrown>>
  /\ UNCHANGED ext_vars

\* m_imgui_data.m_imgui_framebuffers = {...}, and the return to render_frame
RcImguiFramebuffers ==
  /\ pc = "rc_imgui_framebuffers"
  /\ m_imgui_framebuffers' = imgui_framebuffers(m_swapchain)
  /\ pc' = AfterRecreate
  /\ rc_from' = "none"
  /\ rc_extent' = NoExtent
  /\ UNCHANGED <<m_curr_frame, sync_vars, gpu_queue, window_vars, swapchain_vars,
                 m_depth_buffer, m_framebuffers, command_vars, load_vars, frame_vars,
                 trace,
                 copied, thrown>>
  /\ UNCHANGED ext_vars

\* --------------------------------------------------------------------- GPU
\* The queue executes its oldest operation: a submission consumes the
\* image-available semaphore and signals the render-finished semaphore and
\* the fence; a present consumes the render-finished semaphore.
GpuExecute ==
  /\ gpu_queue # << >>
  /\ LET head == Head(gpu_queue)
     IN IF head.op = "submit"
          THEN /\ in_flight_fence' = [in_flight_fence EXCEPT ![head.slot] = TRUE]
               /\ image_availible_semaphore' =
                    [image_availible_semaphore EXCEPT ![head.slot] = FALSE]
               /\ render_finished_semaphore' =
                    [render_finished_semaphore EXCEPT ![head.slot] = TRUE]
               /\ m_primitives_command_buffers' =
                    [m_primitives_command_buffers EXCEPT ![head.slot] = "executable"]
               /\ m_imgui_command_buffers' =
                    [m_imgui_command_buffers EXCEPT ![head.slot] = "executable"]
          ELSE /\ render_finished_semaphore' =
                    [render_finished_semaphore EXCEPT ![head.slot] = FALSE]
               /\ UNCHANGED <<in_flight_fence, image_availible_semaphore,
                              m_primitives_command_buffers, m_imgui_command_buffers>>
  /\ gpu_queue' = Tail(gpu_queue)
  /\ UNCHANGED <<pc, m_curr_frame, window_vars, swapchain_vars, dependent_vars,
                 m_uniform_buffers, load_vars, frame_vars, rc_vars, trace,
                 copied, thrown>>
  /\ UNCHANGED ext_vars

\* ------------------------------------------------------------------ window
\* The user resizes (or minimizes, or restores) the window.
WindowResize ==
  /\ \E e \in Extents \ {window_extent} : window_extent' = e
  /\ events_pending' = TRUE
  /\ UNCHANGED <<pc, m_curr_frame, sync_vars, gpu_queue, swapchain_vars, dependent_vars,
                 command_vars, load_vars, frame_vars, rc_vars, trace,
                 copied, thrown>>
  /\ UNCHANGED ext_vars

\* An event that leaves the extent alone (a key, the mouse) arrives.
WindowEvent ==
  /\ ~events_pending
  /\ events_pending' = TRUE
  /\ UNCHANGED <<pc, m_curr_frame, sync_vars, gpu_queue, window_extent, swapchain_vars,
                 dependent_vars, command_vars, load_vars, frame_vars, rc_vars, trace,
                 copied, thrown>>
  /\ UNCHANGED ext_vars

\* ------------------------------------------------------------------ loader
\* Faulty variant: the staging also replaces the device-local buffer.
load_draw_info_DeviceLocal(n, info) ==
  [info EXCEPT !.count = n, !.size = n, !.staging_buffer = n, !.buf = n + 1]

\* load_draw_info(vertices, info), with vertices.size() = n: the count, the size
\* and the staging buffer, written before the flag is stored
load_draw_info(n, info) ==
  [info EXCEPT !.count = n, !.size = n, !.staging_buffer = n]

\* Faulty variant: a second call is not rejected.
LoadInputData_NoGuard(data) ==
  /\ lpc = LoaderIdle
  /\ lpc' = [step |-> "write", cat |-> 1]
  /\ l_data' = data
  /\ load_result' = "none"
  /\ UNCHANGED <<draw_info, m_data_loaded>>
  /\ UNCHANGED <<pc, m_curr_frame, sync_vars, gpu_queue, window_vars, swapchain_vars,
                 dependent_vars, command_vars, frame_vars, rc_vars, trace, copied,
                 thrown>>
  /\ UNCHANGED ext_vars

\* load_input_data(data) is called: the test of m_data_loaded, and the throw of
\* std::invalid_argument when data was loaded before
LoadInputData(data) ==
  /\ lpc = LoaderIdle
  /\ IF m_data_loaded
       THEN /\ load_result' = "invalid_argument"
            /\ UNCHANGED <<lpc, l_data>>
       ELSE /\ lpc' = [step |-> "write", cat |-> 1]
            /\ l_data' = data
            /\ load_result' = "none"
  /\ UNCHANGED <<draw_info, m_data_loaded>>
  /\ UNCHANGED <<pc, m_curr_frame, sync_vars, gpu_queue, window_vars, swapchain_vars,
                 dependent_vars, command_vars, frame_vars, rc_vars, trace, copied,
                 thrown>>
  /\ UNCHANGED ext_vars

\* Faulty variant: the flag is stored before the size and the staging buffer
\* are written.
LoadDrawInfoWrite_PublishEarly ==
  /\ lpc.step = "write"
  /\ LET c == LoadOrder[lpc.cat]
     IN IF l_data[c] = 0
          THEN /\ lpc' = AfterCategory(lpc.cat)
               /\ UNCHANGED draw_info
          ELSE /\ draw_info' = [draw_info EXCEPT ![c].count = l_data[c],
                                                 ![c].in_staging = TRUE]
               /\ lpc' = [lpc EXCEPT !.step = "publish"]
  /\ UNCHANGED <<m_data_loaded, l_data, load_result>>
  /\ UNCHANGED <<pc, m_curr_frame, sync_vars, gpu_queue, window_vars, swapchain_vars,
                 dependent_vars, command_vars, frame_vars, rc_vars, trace, copied,
                 thrown>>
  /\ UNCHANGED ext_vars

\* if (!vertices.empty()) load_draw_info(vertices, info), up to the store of the
\* flag: info.count, info.size and info.staging_buffer are written
LoadDrawInfoWrite ==
  /\ lpc.step = "write"
  /\ LET c == LoadOrder[lpc.cat]
     IN IF l_data[c] = 0
          THEN /\ lpc' = AfterCategory(lpc.cat)
               /\ UNCHANGED draw_info
          ELSE /\ draw_info' = [draw_info EXCEPT ![c] = load_draw_info(l_data[c], @)]
               /\ lpc' = [lpc EXCEPT !.step = "publish"]
  /\ UNCHANGED <<m_data_loaded, l_data, load_result>>
  /\ UNCHANGED <<pc, m_curr_frame, sync_vars, gpu_queue, window_vars, swapchain_vars,
                 dependent_vars, command_vars, frame_vars, rc_vars, trace, copied,
                 thrown>>
  /\ UNCHANGED ext_vars

\* info.in_staging.store(true)
LoadDrawInfoPublish ==
  /\ lpc.step = "publish"
  /\ LET c == LoadOrder[lpc.cat]
     IN /\ draw_info' = [draw_info EXCEPT ![c].in_staging = TRUE]
        /\ l_data' = [l_data EXCEPT ![c] = 0]
  /\ lpc' = AfterCategory(lpc.cat)
  /\ UNCHANGED <<m_data_loaded, load_result>>
  /\ UNCHANGED <<pc, m_curr_frame, sync_vars, gpu_queue, window_vars, swapchain_vars,
                 dependent_vars, command_vars, frame_vars, rc_vars, trace, copied,
                 thrown>>
  /\ UNCHANGED ext_vars

\* Faulty variant: the flag is stored only when the call has staged a category.
LoadStore_OnlyIfStaged ==
  /\ lpc.step = "store"
  /\ m_data_loaded' = (\E c \in Categories :
                         draw_info[c].in_staging \/ draw_info[c].loaded)
  /\ lpc' = LoaderIdle
  /\ l_data' = NoData
  /\ load_result' = "ok"
  /\ UNCHANGED draw_info
  /\ UNCHANGED <<pc, m_curr_frame, sync_vars, gpu_queue, window_vars, swapchain_vars,
                 dependent_vars, command_vars, frame_vars, rc_vars, trace, copied,
                 thrown>>
  /\ UNCHANGED ext_vars

\* m_data_loaded.store(true), and the return of load_input_data
LoadStore ==
  /\ lpc.step = "store"
  /\ m_data_loaded' = TRUE
  /\ lpc' = LoaderIdle
  /\ l_data' = NoData
  /\ load_result' = "ok"
  /\ UNCHANGED draw_info
  /\ UNCHANGED <<pc, m_curr_frame, sync_vars, gpu_queue, window_vars, swapchain_vars,
                 dependent_vars, command_vars, frame_vars, rc_vars, trace, copied,
                 thrown>>
  /\ UNCHANGED ext_vars

\* Faulty variant: the failure takes back what the call has staged.
StagingFails_Rollback ==
  /\ lpc.step = "write"
  /\ l_data[LoadOrder[lpc.cat]] # 0
  /\ draw_info' = [c \in Categories |->
                     [draw_info[c] EXCEPT !.count = 0, !.size = 0,
                                          !.staging_buffer = 0, !.in_staging = FALSE]]
  /\ lpc' = LoaderIdle
  /\ l_data' = NoData
  /\ load_result' = "error"
  /\ UNCHANGED m_data_loaded
  /\ UNCHANGED <<pc, m_curr_frame, sync_vars, gpu_queue, window_vars, swapchain_vars,
                 dependent_vars, command_vars, frame_vars, rc_vars, trace, copied,
                 thrown>>
  /\ UNCHANGED ext_vars

\* copy_to_staging_memory throws (the device cannot give the staging buffer):
\* count and size are written, the exception leaves load_input_data
StagingFails ==
  /\ lpc.step = "write"
  /\ l_data[LoadOrder[lpc.cat]] # 0
  /\ LET c == LoadOrder[lpc.cat]
     IN draw_info' = [draw_info EXCEPT ![c].count = l_data[c], ![c].size = l_data[c]]
  /\ lpc' = LoaderIdle
  /\ l_data' = NoData
  /\ load_result' = "error"
  /\ UNCHANGED m_data_loaded
  /\ UNCHANGED <<pc, m_curr_frame, sync_vars, gpu_queue, window_vars, swapchain_vars,
                 dependent_vars, command_vars, frame_vars, rc_vars, trace, copied,
                 thrown>>
  /\ UNCHANGED ext_vars

\* The statements of load_input_data
LoadStep ==
  \/ LoadDrawInfoWrite
  \/ LoadDrawInfoPublish
  \/ LoadStore

\* ----------------------------------------------------------- second loader
\* load_input_data called by a second thread while the first may be inside it:
\* the same statements, with the second thread's own position and argument.
OtherLoadInputData(data) ==
  /\ other_lpc = LoaderIdle
  /\ IF m_data_loaded
       THEN /\ other_load_result' = "invalid_argument"
            /\ UNCHANGED <<other_lpc, other_l_data>>
       ELSE /\ other_lpc' = [step |-> "write", cat |-> 1]
            /\ other_l_data' = data
            /\ other_load_result' = "none"
  /\ UNCHANGED <<draw_info, m_data_loaded>>
  /\ UNCHANGED <<lpc, l_data, load_result>>
  /\ UNCHANGED <<pc, m_curr_frame, sync_vars, gpu_queue, window_vars, swapchain_vars,
                 dependent_vars, command_vars, frame_vars, rc_vars, trace, copied,
                 thrown, loop_vars, frames_submitted>>
  /\ UNCHANGED <<input_vars, singleton_vars, platform_vars>>

\* if (!vertices.empty()) load_draw_info(vertices, info), up to the store of the
\* flag, in the second thread
OtherLoadDrawInfoWrite ==
  /\ other_lpc.step = "write"
  /\ LET c == LoadOrder[other_lpc.cat]
     IN IF other_l_data[c] = 0
          THEN /\ other_lpc' = AfterCategory(other_lpc.cat)
               /\ UNCHANGED draw_info
          ELSE /\ draw_info' =
                    [draw_info EXCEPT ![c] = load_draw_info(other_l_data[c], @)]
               /\ other_lpc' = [other_lpc EXCEPT !.step = "publish"]
  /\ UNCHANGED <<m_data_loaded, other_l_data, other_load_result>>
  /\ UNCHANGED <<lpc, l_data, load_result>>
  /\ UNCHANGED <<pc, m_curr_frame, sync_vars, gpu_queue, window_vars, swapchain_vars,
                 dependent_vars, command_vars, frame_vars, rc_vars, trace, copied,
                 thrown, loop_vars, frames_submitted>>
  /\ UNCHANGED <<input_vars, singleton_vars, platform_vars>>

\* info.in_staging.store(true), in the second thread
OtherLoadDrawInfoPublish ==
  /\ other_lpc.step = "publish"
  /\ LET c == LoadOrder[other_lpc.cat]
     IN /\ draw_info' = [draw_info EXCEPT ![c].in_staging = TRUE]
        /\ other_l_data' = [other_l_data EXCEPT ![c] = 0]
  /\ other_lpc' = AfterCategory(other_lpc.cat)
  /\ UNCHANGED <<m_data_loaded, other_load_result>>
  /\ UNCHANGED <<lpc, l_data, load_result>>
  /\ UNCHANGED <<pc, m_curr_frame, sync_vars, gpu_queue, window_vars, swapchain_vars,
                 dependent_vars, command_vars, frame_vars, rc_vars, trace, copied,
                 thrown, loop_vars, frames_submitted>>
  /\ UNCHANGED <<input_vars, singleton_vars, platform_vars>>

\* m_data_loaded.store(true), and the return, in the second thread
OtherLoadStore ==
  /\ other_lpc.step = "store"
  /\ m_data_loaded' = TRUE
  /\ other_lpc' = LoaderIdle
  /\ other_l_data' = NoData
  /\ other_load_result' = "ok"
  /\ UNCHANGED draw_info
  /\ UNCHANGED <<lpc, l_data, load_result>>
  /\ UNCHANGED <<pc, m_curr_frame, sync_vars, gpu_queue, window_vars, swapchain_vars,
                 dependent_vars, command_vars, frame_vars, rc_vars, trace, copied,
                 thrown, loop_vars, frames_submitted>>
  /\ UNCHANGED <<input_vars, singleton_vars, platform_vars>>

\* The statements of load_input_data in the second thread
OtherLoadStep ==
  \/ OtherLoadDrawInfoWrite
  \/ OtherLoadDrawInfoPublish
  \/ OtherLoadStore

\* --------------------------------------------------------- separate queues
\* detail::separate_graphics_present_queues: graphics() and present() are two
\* queues. Each executes its own operations in order; gpu_queue holds the
\* operations of both in the order of their submission.
OpsOf(kind) == {i \in 1 .. Len(gpu_queue) : gpu_queue[i].op = kind}

\* The position in gpu_queue of the oldest operation of a queue
Oldest(kind) == CHOOSE i \in OpsOf(kind) : \A j \in OpsOf(kind) : i <= j

Without(seq, i) == SubSeq(seq, 1, i - 1) \o SubSeq(seq, i + 1, Len(seq))

\* acquireNextImage2KHR with separate queues: an image is returned only while
\* the present queue holds at most MaxQueuedPresents presents not yet executed
\* (a swapchain of MaxQueuedPresents + 1 images); until then the call waits.
AcquireFreeImage ==
  /\ Cardinality(OpsOf("present")) <= MaxQueuedPresents
  /\ AcquireNextImage

\* The graphics queue executes its oldest submission.
GraphicsQueueExecute ==
  /\ OpsOf("submit") # {}
  /\ LET i == Oldest("submit")
         op == gpu_queue[i]
     IN /\ in_flight_fence' = [in_flight_fence EXCEPT ![op.slot] = TRUE]
        /\ image_availible_semaphore' =
             [image_availible_semaphore EXCEPT ![op.slot] = FALSE]
        /\ render_finished_semaphore' =
             [render_finished_semaphore EXCEPT ![op.slot] = TRUE]
        /\ m_primitives_command_buffers' =
             [m_primitives_command_buffers EXCEPT ![op.slot] = "executable"]
        /\ m_imgui_command_buffers' =
             [m_imgui_command_buffers EXCEPT ![op.slot] = "executable"]
        /\ gpu_queue' = Without(gpu_queue, i)
  /\ UNCHANGED <<pc, m_curr_frame, window_vars, swapchain_vars, dependent_vars,
                 m_uniform_buffers, load_vars, frame_vars, rc_vars, trace,
                 copied, thrown>>
  /\ UNCHANGED ext_vars

\* The present queue executes its oldest present, once the render-finished
\* semaphore it waits on is signalled.
PresentQueueExecute ==
  /\ OpsOf("present") # {}
  /\ LET i == Oldest("present")
         op == gpu_queue[i]
     IN /\ render_finished_semaphore[op.slot]
        /\ render_finished_semaphore' =
             [render_finished_semaphore EXCEPT ![op.slot] = FALSE]
        /\ gpu_queue' = Without(gpu_queue, i)
  /\ UNCHANGED <<pc, m_curr_frame, in_flight_fence, image_availible_semaphore,
                 window_vars, swapchain_vars, dependent_vars, command_vars,
                 load_vars, frame_vars, rc_vars, trace, copied, thrown>>
  /\ UNCHANGED ext_vars

\* ------------------------------------------------------------------ errors
\* The statements of render_frame outside recreate_swap_chain whose Vulkan
\* call or allocation can fail with an exception
ThrowPoints == {"wait_fence", "acquire", "record", "copy_triangle", "copy_bbox",
                "copy_broad", "draw", "record_gui", "write_ubo", "reset_fence",
                "submit", "present"}

\* Faulty variant: the failed frame still advances the slot index.
FrameThrows_Advances ==
  /\ pc \in ThrowPoints
  /\ pc' = "error"
  /\ thrown' = "SystemError"
  /\ m_curr_frame' = (m_curr_frame + 1) % c_max_frames_in_flight
  /\ image_index' = 0
  /\ result_present' = eSuccess
  /\ acquired' = "none"
  /\ trace' = << >>
  /\ UNCHANGED <<sync_vars, gpu_queue, window_vars, swapchain_vars,
                 dependent_vars, command_vars, load_vars, start_frame, recorded,
                 imgui_recorded, staged_at_record, rc_vars, copied>>
  /\ UNCHANGED ext_vars

\* A statement of render_frame fails with an error other than
\* OutOfDateKHRError: nothing in render_frame or loop() catches it, so it
\* leaves both; the locals are gone, the members stay as they are
FrameThrows ==
  /\ pc \in ThrowPoints
  /\ pc' = "error"
  /\ thrown' = "SystemError"
  /\ image_index' = 0
  /\ result_present' = eSuccess
  /\ acquired' = "none"
  /\ trace' = << >>
  /\ UNCHANGED <<m_curr_frame, sync_vars, gpu_queue, window_vars, swapchain_vars,
                 dependent_vars, command_vars, load_vars, start_frame, recorded,
                 imgui_recorded, staged_at_record, rc_vars, copied>>
  /\ UNCHANGED ext_vars

\* -------------------------------------------------------------------- loop
\* The values of std::chrono::system_clock::now()
Times == 0 .. MaxTime

\* The start time of the latest loop() call, 0 before the first
LastStart == IF loop_starts = << >> THEN 0 ELSE loop_starts[Len(loop_starts)]

\* The start times of the latest call and of a call that starts at time t
NextStarts(t) == IF loop_starts = << >> THEN <<t>> ELSE <<LastStart, t>>

\* Faulty variant: m_prev_frame_start is assigned only when physics_loop ran.
Loop_StartNotStored ==
  /\ pc = "idle"
  /\ \E current_time \in Times :
       /\ current_time >= LastStart
       /\ physics_calls' = IF ~m_first_frame
                             THEN <<current_time - m_prev_frame_start>>
                             ELSE << >>
       /\ m_first_frame' = FALSE
       /\ m_prev_frame_start' = IF ~m_first_frame THEN current_time
                                                  ELSE m_prev_frame_start
       /\ loop_starts' = NextStarts(current_time)
  /\ pc' = "wait_fence"
  /\ start_frame' = m_curr_frame
  /\ UNCHANGED <<m_curr_frame, sync_vars, gpu_queue, window_vars, swapchain_vars,
                 dependent_vars, command_vars, load_vars, image_index, result_present,
                 acquired, recorded, imgui_recorded, rc_vars, trace,
                 copied, thrown, staged_at_record, other_load_vars, frames_submitted>>
  /\ UNCHANGED <<input_vars, singleton_vars, platform_vars>>

\* loop(): current_time is read; unless this is the first call physics_loop is
\* called with current_time - m_prev_frame_start; m_first_frame is cleared;
\* m_prev_frame_start is assigned; after the GUI and camera updates
\* render_frame is entered. The clock does not run backwards.
Loop ==
  /\ pc = "idle"
  /\ \E current_time \in Times :
       /\ current_time >= LastStart
       /\ physics_calls' = IF ~m_first_frame
                             THEN <<current_time - m_prev_frame_start>>
                             ELSE << >>
       /\ m_first_frame' = FALSE
       /\ m_prev_frame_start' = current_time
       /\ loop_starts' = NextStarts(current_time)
  /\ pc' = "wait_fence"
  /\ start_frame' = m_curr_frame
  /\ UNCHANGED <<m_curr_frame, sync_vars, gpu_queue, window_vars, swapchain_vars,
                 dependent_vars, command_vars, load_vars, image_index, result_present,
                 acquired, recorded, imgui_recorded, rc_vars, trace,
                 copied, thrown, staged_at_record, other_load_vars, frames_submitted>>
  /\ UNCHANGED <<input_vars, singleton_vars, platform_vars>>

\* ---------------------------------------------------------------- shutdown
\* Faulty variant: shutdown returns without waiting.
Shutdown_NoWait ==
  /\ pc = "idle"
  /\ pc' = "stopped"
  /\ UNCHANGED <<m_curr_frame, sync_vars, gpu_queue, window_vars, swapchain_vars,
                 dependent_vars, command_vars, load_vars, frame_vars, rc_vars, trace,
                 copied, thrown>>
  /\ UNCHANGED ext_vars

\* shutdown(), called between two calls of loop(): m_l_device().waitIdle()
\* returns once the device has no work left
Shutdown ==
  /\ pc = "idle"
  /\ gpu_queue = << >>
  /\ pc' = "stopped"
  /\ UNCHANGED <<m_curr_frame, sync_vars, gpu_queue, window_vars, swapchain_vars,
                 dependent_vars, command_vars, load_vars, frame_vars, rc_vars, trace,
                 copied, thrown>>
  /\ UNCHANGED ext_vars

\* singleton_helper::destroy(): m_instance.reset() destroys the application and
\* with it the swapchain and every other GPU object; the caller destroys the
\* instance after shutdown() has returned
Destroy ==
  /\ pc = "stopped"
  /\ pc' = "destroyed"
  /\ live_swapchains' = {}
  /\ m_swapchain' = [m_swapchain EXCEPT !.handle = -1]
  /\ UNCHANGED <<m_curr_frame, sync_vars, gpu_queue, window_vars, new_swapchain,
                 dependent_vars, command_vars, load_vars, frame_vars, rc_vars, trace,
                 copied, thrown>>
  /\ UNCHANGED ext_vars

\* ----------------------------------------------------------- specification
\* The statements of render_frame
FrameStep ==
  \/ WaitForFences
  \/ AcquireNextImage
  \/ FillCommandBuffer
  \/ SubmitCopyTriangle
  \/ SubmitCopyBbox
  \/ SubmitCopyBroad
  \/ RecordDraws
  \/ ImguiFillCommandBuffer
  \/ WriteUniformBuffer
  \/ ResetFences
  \/ QueueSubmit
  \/ QueuePresent
  \/ AdvanceFrame
  \/ Return

\* The statements of recreate_swap_chain outside its loop
RebuildStep ==
  \/ RcEnter
  \/ RcCreateSwapchain
  \/ RcWaitIdle
  \/ RcDestroyOld
  \/ RcMoveSwapchain
  \/ RcDepthBuffer
  \/ RcFramebuffers
  \/ RcImguiFramebuffers

\* The body of the loop of recreate_swap_chain, entered with a zero extent
RebuildLoopStep ==
  \/ RcReadExtent
  \/ RcWaitEvents

RenderStep == FrameStep \/ RebuildStep \/ RebuildLoopStep

\* The frame scheduler with the GPU and the window system; no geometry is loaded.
Next ==
  \/ RenderFrame
  \/ RenderStep
  \/ GpuExecute
  \/ WindowResize
  \/ WindowEvent

Spec == Init /\ [][Next]_vars

\* The frame scheduler with the GPU and the geometry loader; the window keeps
\* its size, so the loop of recreate_swap_chain is never entered.
LoadNext ==
  \/ RenderFrame
  \/ FrameStep
  \/ RebuildStep
  \/ GpuExecute
  \/ \E data \in InputData : LoadInputData(data)
  \/ LoadStep

LoadSpec == Init /\ [][LoadNext]_vars

\* LoadSpec where the staging of a category can fail, which ends the call of
\* load_input_data with an exception; the caller may call again.
RetryNext ==
  \/ LoadNext
  \/ StagingFails

RetrySpec == Init /\ [][RetryNext]_vars

\* Two threads that call load_input_data, in any interleaving.
ConcurrentLoadNext ==
  \/ \E data \in InputData : LoadInputData(data)
  \/ LoadStep
  \/ \E data \in InputData : OtherLoadInputData(data)
  \/ OtherLoadStep

ConcurrentLoadSpec == Init /\ [][ConcurrentLoadNext]_vars

\* The frame scheduler with a graphics queue and a separate present queue.
SeparateQueuesNext ==
  \/ RenderFrame
  \/ WaitForFences
  \/ AcquireFreeImage
  \/ FillCommandBuffer
  \/ SubmitCopyTriangle
  \/ SubmitCopyBbox
  \/ SubmitCopyBroad
  \/ RecordDraws
  \/ ImguiFillCommandBuffer
  \/ WriteUniformBuffer
  \/ ResetFences
  \/ QueueSubmit
  \/ QueuePresent
  \/ AdvanceFrame
  \/ Return
  \/ RebuildStep
  \/ GraphicsQueueExecute
  \/ PresentQueueExecute

SeparateQueuesSpec == Init /\ [][SeparateQueuesNext]_vars

\* The frame scheduler with the GPU, where any statement of a frame can fail.
ErrorNext ==
  \/ RenderFrame
  \/ FrameStep
  \/ RebuildStep
  \/ GpuExecute
  \/ FrameThrows

ErrorSpec == Init /\ [][ErrorNext]_vars

\* The calls of loop() with their start times, and the GPU.
LoopNext ==
  \/ Loop
  \/ FrameStep
  \/ RebuildStep
  \/ GpuExecute

LoopSpec == Init /\ [][LoopNext]_vars

\* The frame scheduler with the GPU, ended by shutdown() and destroy().
ShutdownNext ==
  \/ RenderFrame
  \/ FrameStep
  \/ RebuildStep
  \/ GpuExecute
  \/ Shutdown
  \/ Destroy

ShutdownSpec == Init /\ [][ShutdownNext]_vars

\* LoadSpec where the GPU executes what was submitted and the render thread
\* keeps running.
FairLoadSpec == LoadSpec /\ WF_vars(GpuExecute) /\ WF_vars(FrameStep \/ RebuildStep)

\* ------------------------------------------------------------------ claims
FrameOps == {"record", "promote", "record_gui", "write_ubo", "reset_fence", "submit",
             "present"}
AcquireSucceeded == acquired \in {eSuccess, eSuboptimalKHR}

\* C1: at most c_max_frames_in_flight submissions are outstanding on the GPU,
\* and from the point where render_frame is about to re-record slot s's command
\* buffers or overwrite its uniform buffer up to the submission, the slot's
\* fence has been waited for in this call, no earlier submission of slot s is
\* outstanding and its command buffers are not pending.
C1_FramesInFlight ==
  /\ Cardinality(Outstanding) <= c_max_frames_in_flight
  /\ pc \in {"record", "copy_triangle", "copy_bbox", "copy_broad", "draw",
             "record_gui", "write_ubo", "reset_fence", "submit"} =>
       /\ Has(trace, "wait_fence")
       /\ SubmitsOf(m_curr_frame) = {}
       /\ m_primitives_command_buffers[m_curr_frame] # "pending"
       /\ m_imgui_command_buffers[m_curr_frame] # "pending"

\* A slot that was used before is recorded again while the frame of the other
\* slot is still outstanding.
C1_Witness ==
  /\ pc = "record"
  /\ m_uniform_buffers[m_curr_frame] = "written"
  /\ m_primitives_command_buffers[m_curr_frame] = "executable"
  /\ Cardinality(Outstanding) = c_max_frames_in_flight - 1

\* C2: a fence is unsignaled only while a submission that signals it is
\* outstanding or render_frame stands between its reset and that submission,
\* and a wait on a slot's fence always ends.
C2_NoFenceDeadlock ==
  /\ [](\A s \in Slots :
          ~in_flight_fence[s] =>
             \/ SubmitsOf(s) # {}
             \/ pc = "submit" /\ m_curr_frame = s)
  /\ ((pc = "wait_fence") ~> (pc = "acquire"))

\* render_frame waits on a fence that is not yet signaled.
C2_Witness == pc = "wait_fence" /\ ~in_flight_fence[m_curr_frame]

\* C3: a frame whose acquire reported out-of-date records nothing, promotes no
\* staged buffer, writes no uniform buffer, resets no fence, submits nothing and
\* presents nothing; it calls recreate_swap_chain exactly once, and the fence of
\* its slot stays signaled until it returns.
C3_StaleAcquireAborts ==
  acquired = eErrorOutOfDateKHR =>
    /\ \A op \in FrameOps : ~Has(trace, op)
    /\ Count(trace, "recreate") = 1
    /\ in_flight_fence[start_frame]
    /\ SubmitsOf(start_frame) = {}
    /\ recorded = NoCommands
    /\ imgui_recorded = NoImguiCommands

\* The aborted frame returns while a category is staged and not promoted.
C3_Witness ==
  /\ pc = "return"
  /\ acquired = eErrorOutOfDateKHR
  /\ \E c \in Categories : draw_info[c].in_staging

\* C4 as stated: every call of render_frame ends with the slot index advanced.
C4_AdvancesUnconditionally ==
  pc = "return" => m_curr_frame = (start_frame + 1) % c_max_frames_in_flight

\* C4: the slot index is advanced by one modulo c_max_frames_in_flight at the
\* end of a call whose acquire succeeded, with or without a rebuild after the
\* present; a call whose acquire reported out-of-date leaves it unchanged.
C4_AdvancesUnlessStaleAcquire ==
  /\ pc = "return" =>
       m_curr_frame = IF acquired = eErrorOutOfDateKHR
                        THEN start_frame
                        ELSE (start_frame + 1) % c_max_frames_in_flight
  /\ pc # "return" => m_curr_frame = start_frame

\* A frame of the last slot rebuilt after its present and wrapped around.
C4_Witness ==
  /\ pc = "return"
  /\ Has(trace, "recreate")
  /\ AcquireSucceeded
  /\ start_frame = c_max_frames_in_flight - 1
  /\ m_curr_frame = 0

\* C5: in a frame whose acquire succeeded, recreate_swap_chain is called if and
\* only if the present reported suboptimal or out-of-date, after the present was
\* issued, which is after the submission, and at most once.
C5_RebuildIffPresentStale ==
  AcquireSucceeded =>
    /\ Count(trace, "recreate") <= 1
    /\ Has(trace, "recreate") =>
         /\ result_present \in {eSuboptimalKHR, eErrorOutOfDateKHR}
         /\ Before(trace, "submit", "present")
         /\ Before(trace, "present", "recreate")
    /\ Has(trace, "present") /\ result_present \in {eSuboptimalKHR, eErrorOutOfDateKHR} =>
         Has(trace, "recreate")

\* A frame returns after a suboptimal present and its rebuild.
C5_Witness ==
  /\ pc = "return"
  /\ result_present = eSuboptimalKHR
  /\ Count(trace, "recreate") = 1

\* C6: the new swapchain is created, with the old handle as its hint, while the
\* old one exists; the old one is destroyed only once the new one exists; and
\* when the creation fails the application still holds its old swapchain.
C6_CreateBeforeDestroy ==
  /\ live_swapchains # {}
  /\ pc \in {"rc_wait_idle", "rc_destroy"} =>
       /\ m_swapchain.handle \in live_swapchains
       /\ new_swapchain.handle \in live_swapchains
       /\ new_swapchain.handle # m_swapchain.handle
       /\ new_swapchain.old = m_swapchain.handle
  /\ m_swapchain.handle \notin live_swapchains =>
       pc = "rc_move" /\ new_swapchain.handle \in live_swapchains
  /\ pc = "error" =>
       new_swapchain = NoSwapchain /\ live_swapchains = {m_swapchain.handle}

\* The old swapchain has been destroyed and the new one is about to be moved in.
C6_Witness ==
  /\ pc = "rc_move"
  /\ live_swapchains = {new_swapchain.handle}
  /\ new_swapchain.old \notin live_swapchains

\* C7: the old swapchain and the dependents that are replaced are destroyed only
\* when no GPU work is outstanding: every queued present refers to an existing
\* swapchain, every queued submission to the current framebuffers.
C7_NoTeardownWhileOutstanding ==
  /\ pc \in {"rc_destroy", "rc_move", "rc_depth", "rc_framebuffers",
             "rc_imgui_framebuffers"} => gpu_queue = << >>
  /\ \A i \in 1 .. Len(gpu_queue) :
       IF gpu_queue[i].op = "present"
         THEN gpu_queue[i].swapchain \in live_swapchains
         ELSE /\ gpu_queue[i].framebuffer = m_framebuffers.id
              /\ gpu_queue[i].imgui_framebuffer = m_imgui_framebuffers.id
              /\ m_framebuffers.depth = m_depth_buffer.id

\* The rebuild after a present, whose frame was submitted, destroys the old
\* swapchain.
C7_Witness ==
  /\ pc = "rc_destroy"
  /\ rc_from = "present"
  /\ Has(trace, "submit")

\* C8: recreate_swap_chain asks for a swapchain only with an extent whose width
\* and height are both non-zero, and no swapchain has a zero dimension.
C8_NoZeroExtentSwapchain ==
  /\ pc \in {"rc_create", "rc_wait_idle", "rc_destroy", "rc_move"} =>
       ~IsZeroExtent(rc_extent)
  /\ new_swapchain # NoSwapchain => new_swapchain.extent = rc_extent
  /\ ~IsZeroExtent(m_swapchain.extent)

\* The rebuild, entered with a zero extent, creates the swapchain once the
\* extent it read is non-zero.
C8_Witness ==
  /\ pc = "rc_wait_idle"
  /\ Has(trace, "wait_events")
  /\ ~IsZeroExtent(new_swapchain.extent)

\* C9 as stated: the rebuild is blocked waiting for an event only while the
\* window extent is zero.
C9_BlockedOnlyWhileZero ==
  (pc = "rc_wait" /\ ~events_pending) => IsZeroExtent(window_extent)

\* C10: outside the rebuild, the depth buffer, the framebuffers and the GUI
\* framebuffers are those built from the current swapchain: its image views,
\* its extent, and the current depth buffer.
C10_DependentsCurrent ==
  pc \notin {"rc_depth", "rc_framebuffers", "rc_imgui_framebuffers"} =>
    /\ m_depth_buffer.id = m_swapchain.image_views
    /\ m_depth_buffer.extent = m_swapchain.extent
    /\ m_framebuffers.image_views = m_swapchain.image_views
    /\ m_framebuffers.extent = m_swapchain.extent
    /\ m_framebuffers.depth = m_depth_buffer.id
    /\ m_imgui_framebuffers.image_views = m_swapchain.image_views
    /\ m_imgui_framebuffers.extent = m_swapchain.extent

\* A frame is recorded after a rebuild.
C10_Witness ==
  /\ pc = "record"
  /\ m_swapchain.handle = 1
  /\ m_framebuffers.id = 1

\* The category whose submit_copy the render thread executes next.
CopyTarget ==
  CASE pc = "copy_triangle" -> {"triangle"}
    [] pc = "copy_bbox" -> {"bbox"}
    [] pc = "copy_broad" -> {"broad"}
    [] OTHER -> {}

\* C11 as stated: a category is promoted at most once over the whole run, so
\* submit_copy never finds a category staged that is already loaded (its
\* device-local buffer allocated, its copy and its barrier recorded before).
C11_PromotedAtMostOnce ==
  \A c \in CopyTarget : ~(draw_info[c].in_staging /\ draw_info[c].loaded)

\* The categories whose copy and then barrier precede position i of a command
\* stream.
CopiedBefore(cmds, i) == CopiedIn(SubSeq(cmds, 1, i - 1))

\* C12: a draw of a category is recorded only if the copy of that category and
\* then its barrier were recorded earlier in the same command buffer, or in a
\* command buffer submitted earlier to the queue; and a category is loaded only
\* if its copy and barrier are in the buffer being recorded or were submitted.
C12_DrawAfterCopyAndBarrier ==
  /\ \A i \in 1 .. Len(recorded.cmds) :
        recorded.cmds[i].cmd = "draw" =>
          \/ recorded.cmds[i].cat \in CopiedBefore(recorded.cmds, i)
          \/ recorded.cmds[i].cat \in copied
  /\ \A c \in Categories :
        draw_info[c].loaded => c \in copied \cup CopiedIn(recorded.cmds)

\* A frame draws a category whose copy was submitted by an earlier frame,
\* and another whose copy is in the same command buffer.
C12_Witness ==
  /\ pc = "record_gui"
  /\ \E i, j \in 1 .. Len(recorded.cmds) :
        /\ recorded.cmds[i].cmd = "draw"
        /\ recorded.cmds[i].cat \in copied
        /\ recorded.cmds[i].cat \notin CopiedIn(recorded.cmds)
        /\ recorded.cmds[j].cmd = "draw"
        /\ recorded.cmds[j].cat \in CopiedBefore(recorded.cmds, j)
        /\ recorded.cmds[j].cat \notin copied

C14_SecondLoadRejected ==
  /\ [](m_data_loaded => lpc = LoaderIdle)
  /\ [](load_result = "invalid_argument" => m_data_loaded)
  /\ [][m_data_loaded =>
          /\ m_data_loaded'
          /\ load_result' \in {load_result, "invalid_argument"}
          /\ \A c \in Categories :
                /\ draw_info'[c].count = draw_info[c].count
                /\ draw_info'[c].size = draw_info[c].size
                /\ draw_info'[c].staging_buffer = draw_info[c].staging_buffer
                /\ draw_info'[c].in_staging => draw_info[c].in_staging
                /\ draw_info[c].loaded => draw_info'[c].loaded]_vars

\* A second call was rejected while a category staged by the first call still
\* waits for its promotion.
C14_Witness ==
  /\ load_result = "invalid_argument"
  /\ m_data_loaded
  /\ \E c \in Categories : draw_info[c].in_staging

\* C15 as stated: loading zero-element data fails synchronously, so a call of
\* load_input_data that returned normally was given, and has staged, data of
\* at least one element.
C15_EmptyLoadFails ==
  load_result = "ok" => \E c \in Categories : draw_info[c].count >= 1

C17_NoUniformRace ==
  pc = "write_ubo" =>
    \A i \in 1 .. Len(gpu_queue) :
       (gpu_queue[i].op = "submit" /\ gpu_queue[i].slot # m_curr_frame) =>
          gpu_queue[i].ubo # m_curr_frame

\* C18: OutOfDateKHRError never leaves render_frame; an exception has left
\* render_frame exactly when the frame loop stopped with an error. A call
\* whose acquire threw out-of-date, or whose present threw out-of-date or
\* returned suboptimal, reaches its return only after recreate_swap_chain.
C18_StaleNeverSurfaced ==
  /\ thrown # "OutOfDateKHRError"
  /\ (thrown # "none") <=> (pc = "error")
  /\ (pc = "return" /\ (\/ acquired = eErrorOutOfDateKHR
                         \/ result_present \in {eSuboptimalKHR, eErrorOutOfDateKHR})) =>
        (Has(trace, "recreate") /\ thrown = "none")

\* render_frame returns normally after present has thrown out-of-date.
C18_Witness ==
  /\ pc = "return"
  /\ result_present = eErrorOutOfDateKHR
  /\ Has(trace, "recreate")
  /\ thrown = "none"

C20_ForwardOnly ==
  \A c \in Categories : ~(draw_info[c].in_staging /\ draw_info[c].loaded)

\* C21: the first loop() call does not call physics_loop; every later call
\* calls it exactly once, before render_frame is entered, with the difference
\* between the start of this call and the start of the previous call, whether
\* or not the previous call was aborted by a stale acquire.
C21_PhysicsAfterFirstFrame ==
  /\ Len(loop_starts) <= 1 => physics_calls = << >>
  /\ Len(loop_starts) = 2 => physics_calls = <<loop_starts[2] - loop_starts[1]>>
  /\ (pc # "idle" \/ ~m_first_frame) => loop_starts # << >>

\* A later call has called physics_loop with a non-zero delta although the
\* first call did not start at time zero.
C21_Witness ==
  /\ pc = "wait_fence"
  /\ Len(loop_starts) = 2
  /\ loop_starts[1] >= 1
  /\ physics_calls = <<1>>

\* The steps of a frame that is not aborted, in the order of render_frame
FrameOrder == <<"wait_fence", "acquire", "record", "record_gui", "write_ubo",
                "reset_fence", "submit", "present", "advance">>

InFrameOrder(op) == Has(FrameOrder, op)

IsPrefix(s, t) == Len(s) <= Len(t) /\ s = SubSeq(t, 1, Len(s))

\* C22: in a frame whose acquire succeeded the steps happen in the order wait
\* on the fence, acquire, record the primitives (with the promotions inside
\* that recording), record the GUI for the same image, write the uniform
\* buffer, reset the fence, submit, present, advance; the submission and the
\* present are queued for the slot of the frame, the present right after its
\* submission.
C22_FrameStepOrder ==
  /\ [](AcquireSucceeded => IsPrefix(SelectSeq(trace, InFrameOrder), FrameOrder))
  /\ []((pc = "return" /\ AcquireSucceeded) => SelectSeq(trace, InFrameOrder) = FrameOrder)
  /\ [](\A i \in 1 .. Len(trace) :
          trace[i] = "promote" =>
            /\ Has(SubSeq(trace, 1, i), "record")
            /\ ~Has(SubSeq(trace, 1, i), "record_gui"))
  /\ [](pc \in {"write_ubo", "reset_fence", "submit"} =>
          /\ recorded.image = image_index
          /\ imgui_recorded.image = image_index)
  /\ [][Len(gpu_queue') > Len(gpu_queue) =>
          LET op == gpu_queue'[Len(gpu_queue')]
          IN /\ op.slot = start_frame
             /\ m_curr_frame = start_frame
             /\ op.op = IF pc = "submit" THEN "submit" ELSE "present"
             /\ pc \in {"submit", "present"}]_vars

\* A frame that promoted a staged category has gone through all its steps.
C22_Witness ==
  /\ pc = "return"
  /\ AcquireSucceeded
  /\ Has(trace, "promote")
  /\ ~Has(trace, "recreate")

\* C23: a slot's fence is reset only by the resetFences step of a render_frame
\* call that waited on this fence, while the fence is signalled and no
\* submission that signals it is outstanding; the step that follows the reset
\* is the submission with this fence; a frame aborted by a stale acquire
\* resets no fence.
C23_ResetBeforeSubmit ==
  /\ [][\A s \in Slots :
          (in_flight_fence[s] /\ ~in_flight_fence'[s]) =>
             /\ s = m_curr_frame
             /\ pc = "reset_fence" /\ pc' = "submit"
             /\ Before(trace, "wait_fence", "acquire")
             /\ SubmitsOf(s) = {}]_vars
  /\ [][(pc = "submit" /\ pc' # "submit") =>
          /\ pc' = "present"
          /\ ~in_flight_fence[m_curr_frame]
          /\ SubmitsOf(m_curr_frame) = {}
          /\ gpu_queue'[Len(gpu_queue')].op = "submit"
          /\ gpu_queue'[Len(gpu_queue')].slot = m_curr_frame]_vars
  /\ [](Has(trace, "reset_fence") => AcquireSucceeded)

\* The fence of a slot is reset for the second use of the slot while the frame
\* of the other slot is outstanding.
C23_Witness ==
  /\ pc = "submit"
  /\ ~in_flight_fence[m_curr_frame]
  /\ m_primitives_command_buffers[m_curr_frame] = "executable"
  /\ SubmitsOf((m_curr_frame + 1) % c_max_frames_in_flight) # {}

\* A category that is neither staged nor loaded
IsEmpty(c) == ~draw_info[c].in_staging /\ ~draw_info[c].loaded

\* C24: submit_copy of a category that is not staged changes nothing: the
\* draw infos and the recorded commands are as before; a copy is recorded only
\* for a category that was staged at its submit_copy; and a draw is recorded
\* only for a loaded category, so an empty category is never drawn.
C24_PromotionNoOpUnlessStaged ==
  /\ [][\A c \in CopyTarget :
          (pc' # pc /\ ~draw_info[c].in_staging) =>
             /\ draw_info' = draw_info
             /\ recorded'.cmds = recorded.cmds
             /\ copied' = copied]_vars
  /\ [][\A c \in Categories :
          (c \in CopiedIn(recorded'.cmds) /\ c \notin CopiedIn(recorded.cmds)) =>
             (c \in CopyTarget /\ draw_info[c].in_staging)]_vars
  /\ [](\A i \in 1 .. Len(recorded.cmds) :
          recorded.cmds[i].cmd = "draw" =>
             /\ draw_info[recorded.cmds[i].cat].loaded
             /\ recorded.cmds[i].count >= 1)

\* A frame was recorded with one category loaded before, passed over by
\* submit_copy and drawn, and another category empty: no copy was recorded.
C24_Witness ==
  /\ pc = "record_gui"
  /\ \E i \in 1 .. Len(recorded.cmds) : recorded.cmds[i].cmd = "draw"
  /\ \A i \in 1 .. Len(recorded.cmds) : recorded.cmds[i].cmd = "draw"
  /\ \E c \in Categories : IsEmpty(c)
  /\ ~Has(trace, "promote")

\* C25: a step of load_input_data changes, of the application, only count,
\* size and staging_buffer of a category and sets its in_staging flag, and
\* m_data_loaded: the device-local buffers, the loaded flags, the command
\* buffers and what is recorded in them, the queue, the slot index, the fences
\* and the semaphores are as before.
C25_StagingTouchesHostStateOnly ==
  [][lpc' # lpc =>
       /\ \A c \in Categories :
             /\ draw_info'[c].buf = draw_info[c].buf
             /\ draw_info'[c].loaded = draw_info[c].loaded
             /\ draw_info[c].in_staging => draw_info'[c].in_staging
       /\ UNCHANGED <<recorded, imgui_recorded, command_vars, gpu_queue, copied,
                      m_curr_frame, sync_vars, pc, trace>>]_vars

\* The loader is about to publish a category while the render thread records
\* a frame and an earlier frame is outstanding on the GPU.
C25_Witness ==
  /\ lpc.step = "publish"
  /\ pc = "draw"
  /\ Outstanding # {}
  /\ \E c \in Categories : draw_info[c].loaded

\* C26 as stated: a frame whose acquire reported suboptimal rebuilds the
\* swapchain before it returns, hence before the acquire of the next frame.
C26_SuboptimalAcquireRebuilds ==
  (pc = "return" /\ acquired = eSuboptimalKHR) => Has(trace, "recreate")

\* C27: an error other than out-of-date or suboptimal raised by a statement of
\* render_frame or by the rebuild leaves render_frame: the slot index is not
\* advanced, the error step starts no rebuild and changes no member, and the
\* render thread takes no further step, so nothing of the frame is recovered.
C27_OtherErrorsPropagate ==
  /\ [](pc = "error" =>
          /\ thrown = "SystemError"
          /\ m_curr_frame = start_frame)
  /\ [][(pc # "error" /\ pc' = "error") =>
          UNCHANGED <<m_curr_frame, sync_vars, gpu_queue, swapchain_vars,
                      dependent_vars, command_vars>>]_vars
  /\ [][pc = "error" =>
          /\ pc' = "error"
          /\ UNCHANGED <<m_curr_frame, swapchain_vars, dependent_vars, thrown,
                         m_uniform_buffers, recorded, imgui_recorded>>]_vars

\* The submission failed after the fence of the slot was reset: the frame loop
\* has ended with the fence unsignalled and the command buffers recorded.
C27_Witness ==
  /\ pc = "error"
  /\ thrown = "SystemError"
  /\ ~in_flight_fence[m_curr_frame]
  /\ SubmitsOf(m_curr_frame) = {}
  /\ m_primitives_command_buffers[m_curr_frame] = "executable"

\* C28: the frames are submitted on the slots in round-robin order: the k-th
\* submitted frame uses slot k mod c_max_frames_in_flight, however many frames
\* were aborted by a stale acquire in between, and m_curr_frame is always a
\* slot index.
C28_RoundRobin ==
  /\ [](m_curr_frame \in Slots)
  /\ [][(Len(gpu_queue') > Len(gpu_queue) /\ pc = "submit") =>
          /\ gpu_queue'[Len(gpu_queue')].slot = frames_submitted
          /\ m_curr_frame = frames_submitted]_vars
  /\ [](pc \in {"idle", "wait_fence", "acquire"} => m_curr_frame = frames_submitted)

\* The first frame ever submitted is queued after a frame was aborted by a
\* stale acquire and the swapchain was rebuilt.
C28_Witness ==
  /\ pc = "present"
  /\ frames_submitted = 1
  /\ \A s \in Slots : s # 0 => m_uniform_buffers[s] = "unwritten"
  /\ m_swapchain.handle >= 1
  /\ gpu_queue # << >>

\* C29 as stated, for a graphics queue and a separate present queue: the
\* acquire of a frame finds the image-available semaphore of its slot without
\* a signal and without a submission that still has to consume one, and the
\* submission that the graphics queue executes next finds the render-finished
\* semaphore of its slot unsignalled, its previous signal consumed by a present.
C29_SemaphoreDiscipline ==
  /\ pc = "acquire" =>
       /\ ~image_availible_semaphore[m_curr_frame]
       /\ SubmitsOf(m_curr_frame) = {}
  /\ OpsOf("submit") # {} =>
       ~render_finished_semaphore[gpu_queue[Oldest("submit")].slot]

\* C30 as stated: of two threads that call load_input_data, at most one call
\* returns normally, and no call writes count, size and staging_buffer of a
\* category whose in_staging flag was already published.
C30_OneConcurrentLoadStages ==
  /\ ~(load_result = "ok" /\ other_load_result = "ok")
  /\ lpc.step = "publish" => ~draw_info[LoadOrder[lpc.cat]].in_staging
  /\ other_lpc.step = "publish" => ~draw_info[LoadOrder[other_lpc.cat]].in_staging

\* C31: the load guard is global.  A call of load_input_data that returned
\* normally, whatever it carried, has left m_data_loaded true; from then on the
\* flag stays true, no call is accepted any more (the loader never leaves its
\* idle position, a call ends with std::invalid_argument), and a category that
\* is empty stays empty, with count 0, for good.
C31_LoadGuardIsGlobal ==
  /\ [](load_result = "ok" => m_data_loaded)
  /\ [][m_data_loaded =>
          /\ m_data_loaded'
          /\ lpc' = LoaderIdle
          /\ load_result' \in {load_result, "invalid_argument"}
          /\ \A c \in Categories :
                IsEmpty(c) /\ draw_info[c].count = 0 =>
                   /\ ~draw_info'[c].in_staging
                   /\ ~draw_info'[c].loaded
                   /\ draw_info'[c].count = 0]_vars

\* The first call carried three empty spans and returned normally; a later
\* call was rejected and every category is still empty.
C31_Witness ==
  /\ m_data_loaded
  /\ load_result = "invalid_argument"
  /\ \A c \in Categories : IsEmpty(c) /\ draw_info[c].count = 0

\* C32: a failed load has no rollback.  The step by which load_input_data ends
\* with an exception of the staging leaves the staged flag, the loaded flag and
\* the staging buffer of every category as they were and m_data_loaded false;
\* as long as the failure is the last result the loader is idle and the flag is
\* false, so the next call is accepted; and a category staged when a recording
\* starts is loaded when that recording ends, failed load or not.
C32_FailedLoadNoRollback ==
  /\ [][load_result' = "error" /\ load_result # "error" =>
          /\ ~m_data_loaded'
          /\ \A c \in Categories :
                /\ draw_info'[c].in_staging = draw_info[c].in_staging
                /\ draw_info'[c].loaded = draw_info[c].loaded
                /\ draw_info'[c].staging_buffer = draw_info[c].staging_buffer]_vars
  /\ [](load_result = "error" => ~m_data_loaded /\ lpc = LoaderIdle)
  /\ [](pc = "record_gui" => \A c \in staged_at_record : draw_info[c].loaded)

\* After a failed call the retry is about to store the staged flag of a
\* category that an earlier call has staged and a frame has promoted since.
C32_Witness ==
  /\ lpc.step = "publish"
  /\ ~m_data_loaded
  /\ draw_info[LoadOrder[lpc.cat]].loaded

\* ------------------------------------------------------------------- input
\* What the input operations leave alone
app_vars == <<pc, m_curr_frame, sync_vars, gpu_queue, window_vars, swapchain_vars,
              dependent_vars, command_vars, load_vars, frame_vars, rc_vars, trace,
              copied, thrown, loop_vars, other_load_vars, frames_submitted,
              singleton_vars, platform_vars>>

\* The linear velocity, in units of linear_velocity_reg (500 and 5000)
linear_velocity(mod_speed) == IF mod_speed THEN 10 ELSE 1

\* events.count(key) of the map a poll returned
count(polled, key) == IF key \in DOMAIN polled THEN 1 ELSE 0

\* calculate_movement(plus, minus)
calculate_movement(polled, plus, minus) == count(polled, plus) - count(polled, minus)

\* GLFW delivers a key event: key_callback(window, key, scancode, action, mods)
KeyCallback(key, action) ==
  /\ m_tracked_keys' = key_callback(m_tracked_keys, key, action)
  /\ last_action' = [k \in DOMAIN last_action |->
                       IF k = key THEN action ELSE last_action[k]]
  /\ last_change' = [k \in DOMAIN last_change |->
                       IF k = key /\ action \in {GLFW_PRESS, GLFW_RELEASE}
                         THEN action ELSE last_change[k]]
  /\ event_since_poll' = [k \in DOMAIN event_since_poll |->
                            IF k # key THEN event_since_poll[k]
                            ELSE IF action \in {GLFW_PRESS, GLFW_RELEASE} THEN "change"
                            ELSE IF event_since_poll[k] = "none" THEN "other"
                            ELSE event_since_poll[k]]
  /\ UNCHANGED <<events, poll_captured, poll_parity, WantCaptureKeyboard, m_mod_speed,
                 m_camera>>
  /\ UNCHANGED app_vars

\* The GUI takes or gives back the keyboard between two frames
ImguiCapture ==
  /\ WantCaptureKeyboard' = ~WantCaptureKeyboard
  /\ UNCHANGED <<m_tracked_keys, last_action, last_change, events, event_since_poll,
                 poll_captured,
                 poll_parity, m_mod_speed, m_camera>>
  /\ UNCHANGED app_vars

\* Faulty variant: the capture test comes before the poll.
PhysicsLoop_TestFirst ==
  /\ poll_captured' = WantCaptureKeyboard
  /\ poll_parity' = 1 - poll_parity
  /\ IF WantCaptureKeyboard
       THEN UNCHANGED <<m_tracked_keys, events, event_since_poll, m_mod_speed, m_camera>>
       ELSE LET polled == poll_result(m_tracked_keys)
                mod_speed == IF GLFW_KEY_LEFT_SHIFT \in DOMAIN polled
                               THEN ~m_mod_speed ELSE m_mod_speed
                fwd_movement == calculate_movement(polled, GLFW_KEY_W, GLFW_KEY_S)
                position == m_camera + fwd_movement * linear_velocity(mod_speed)
            IN /\ position \in (0 - MaxCamera) .. MaxCamera
               /\ events' = polled
               /\ m_tracked_keys' = poll_tracked(m_tracked_keys)
               /\ event_since_poll' = [k \in DOMAIN event_since_poll |-> "none"]
               /\ m_mod_speed' = mod_speed
               /\ m_camera' = position
  /\ UNCHANGED <<last_action, last_change, WantCaptureKeyboard>>
  /\ UNCHANGED app_vars

\* physics_loop(delta), for a delta of one time unit: the poll, the return when
\* the GUI wants the keyboard, the speed toggle and the translation of the
\* camera along its direction by W and S
PhysicsLoop ==
  LET polled == poll_result(m_tracked_keys)
      mod_speed == IF GLFW_KEY_LEFT_SHIFT \in DOMAIN polled
                     THEN ~m_mod_speed ELSE m_mod_speed
      fwd_movement == calculate_movement(polled, GLFW_KEY_W, GLFW_KEY_S)
      position == m_camera + fwd_movement * linear_velocity(mod_speed)
  IN /\ events' = polled
     /\ m_tracked_keys' = poll_tracked(m_tracked_keys)
     /\ event_since_poll' = [k \in DOMAIN event_since_poll |-> "none"]
     /\ poll_captured' = WantCaptureKeyboard
     /\ poll_parity' = 1 - poll_parity
     /\ IF WantCaptureKeyboard
          THEN UNCHANGED <<m_mod_speed, m_camera>>
          ELSE /\ position \in (0 - MaxCamera) .. MaxCamera
               /\ m_mod_speed' = mod_speed
               /\ m_camera' = position
     /\ UNCHANGED <<last_action, last_change, WantCaptureKeyboard>>
     /\ UNCHANGED app_vars

\* The key events, the GUI and the physics step of the main loop
InputNext ==
  \/ \E key \in Keys, action \in KeyActions : KeyCallback(key, action)
  \/ ImguiCapture
  \/ PhysicsLoop

InputSpec == Init /\ [][InputNext]_vars

\* A step that is a call of poll()
PollStep == poll_parity' # poll_parity

\* C33 as stated: after a poll, a key monitored for e_held_down is in the
\* returned map exactly when the most recent event delivered for it was a
\* press.
C33_HeldDownIffLastEventPress ==
  event_since_poll[GLFW_KEY_W] = "none" =>
     (GLFW_KEY_W \in DOMAIN events <=> last_action[GLFW_KEY_W] = GLFW_PRESS)

\* C33 amended: after a poll, a key monitored for e_held_down is in the
\* returned map exactly when the most recent press or release delivered for it
\* was a press, on every poll; a poll reports the key monitored for e_pressed
\* exactly when a press or a release was delivered for it since the poll
\* before and the last of them is a release, so that two polls with no press
\* or release of the key in between never both report it; a reported release
\* leaves the key idle.
C33_InputReporting ==
  /\ [](event_since_poll[GLFW_KEY_W] = "none" =>
          (GLFW_KEY_W \in DOMAIN events <=> last_change[GLFW_KEY_W] = GLFW_PRESS))
  /\ [][PollStep =>
          /\ GLFW_KEY_LEFT_SHIFT \in DOMAIN events' <=>
                /\ event_since_poll[GLFW_KEY_LEFT_SHIFT] = "change"
                /\ last_change[GLFW_KEY_LEFT_SHIFT] = GLFW_RELEASE
          /\ event_since_poll[GLFW_KEY_LEFT_SHIFT] # "change" =>
                ~(/\ GLFW_KEY_LEFT_SHIFT \in DOMAIN events
                  /\ GLFW_KEY_LEFT_SHIFT \in DOMAIN events')
          /\ GLFW_KEY_LEFT_SHIFT \in DOMAIN events' =>
                m_tracked_keys'[GLFW_KEY_LEFT_SHIFT].current_state = e_idle]_vars

\* A poll has reported W, which was pressed and has repeated since, and the
\* release of Left Shift, which is idle again.
C33_Witness ==
  /\ event_since_poll[GLFW_KEY_W] = "none"
  /\ last_action[GLFW_KEY_W] = GLFW_REPEAT
  /\ GLFW_KEY_W \in DOMAIN events
  /\ GLFW_KEY_LEFT_SHIFT \in DOMAIN events
  /\ event_since_poll[GLFW_KEY_LEFT_SHIFT] = "none"
  /\ m_tracked_keys[GLFW_KEY_LEFT_SHIFT].current_state = e_idle

\* C34: a call of physics_loop while the GUI wants the keyboard leaves the
\* camera and m_mod_speed as they were, yet it has polled: a release of Left
\* Shift that was pending is in the returned map and the key is idle after the
\* call; m_mod_speed is toggled only by a call that runs without the capture
\* and finds a release delivered since the poll before, so no later call
\* toggles it for the release that was taken.
C34_CapturedPollConsumes ==
  /\ [][PollStep /\ WantCaptureKeyboard =>
          /\ m_camera' = m_camera
          /\ m_mod_speed' = m_mod_speed
          /\ events' = poll_result(m_tracked_keys)
          /\ m_tracked_keys[GLFW_KEY_LEFT_SHIFT].current_state = e_pressed =>
                /\ GLFW_KEY_LEFT_SHIFT \in DOMAIN events'
                /\ m_tracked_keys'[GLFW_KEY_LEFT_SHIFT].current_state = e_idle]_vars
  /\ [][m_mod_speed' # m_mod_speed =>
          /\ ~WantCaptureKeyboard
          /\ event_since_poll[GLFW_KEY_LEFT_SHIFT] = "change"
          /\ last_change[GLFW_KEY_LEFT_SHIFT] = GLFW_RELEASE]_vars

\* The last physics_loop ran while the GUI had the keyboard and W was held: it
\* took the release of Left Shift, the key is idle, and m_mod_speed and the
\* camera are as at the start.
C34_Witness ==
  /\ poll_captured
  /\ event_since_poll[GLFW_KEY_LEFT_SHIFT] = "none"
  /\ last_change[GLFW_KEY_LEFT_SHIFT] = GLFW_RELEASE
  /\ GLFW_KEY_LEFT_SHIFT \in DOMAIN events
  /\ GLFW_KEY_W \in DOMAIN events
  /\ m_tracked_keys[GLFW_KEY_LEFT_SHIFT].current_state = e_idle
  /\ ~m_mod_speed
  /\ m_camera = 0
  /\ poll_parity = 1

\* --------------------------------------------------------------- singleton
\* What the calls of the helper leave alone when no application is constructed
render_vars == <<pc, m_curr_frame, sync_vars, gpu_queue, window_vars, swapchain_vars,
                 dependent_vars, command_vars, load_vars, frame_vars, rc_vars, trace,
                 copied, thrown, loop_vars, other_load_vars, frames_submitted,
                 platform_vars>>

\* application::application has run: the members are as after construction
ApplicationConstructed ==
  /\ pc' = "idle"
  /\ m_curr_frame' = 0
  /\ in_flight_fence' = [s \in Slots |-> TRUE]
  /\ image_availible_semaphore' = [s \in Slots |-> FALSE]
  /\ render_finished_semaphore' = [s \in Slots |-> FALSE]
  /\ gpu_queue' = << >>
  /\ window_extent' = [width |-> MaxWidth, height |-> MaxHeight]
  /\ events_pending' = FALSE
  /\ m_swapchain' = swapchain(0, window_extent')
  /\ live_swapchains' = {0}
  /\ new_swapchain' = NoSwapchain
  /\ rc_extent' = NoExtent
  /\ rc_from' = "none"
  /\ m_depth_buffer' = depth_buffer(m_swapchain')
  /\ m_framebuffers' = framebuffers(m_swapchain', m_depth_buffer')
  /\ m_imgui_framebuffers' = imgui_framebuffers(m_swapchain')
  /\ m_primitives_command_buffers' = [s \in Slots |-> "initial"]
  /\ m_imgui_command_buffers' = [s \in Slots |-> "initial"]
  /\ recorded' = NoCommands
  /\ imgui_recorded' = NoImguiCommands
  /\ m_uniform_buffers' = [s \in Slots |-> "unwritten"]
  /\ image_index' = 0
  /\ result_present' = eSuccess
  /\ draw_info' = [c \in Categories |-> EmptyDrawInfo]
  /\ m_data_loaded' = FALSE
  /\ lpc' = LoaderIdle
  /\ l_data' = NoData
  /\ load_result' = "none"
  /\ copied' = {}
  /\ staged_at_record' = {}
  /\ thrown' = "none"
  /\ trace' = << >>
  /\ acquired' = "none"
  /\ start_frame' = 0
  /\ m_first_frame' = TRUE
  /\ m_prev_frame_start' = 0
  /\ physics_calls' = << >>
  /\ loop_starts' = << >>
  /\ frames_submitted' = 0
  /\ other_lpc' = LoaderIdle
  /\ other_l_data' = NoData
  /\ other_load_result' = "none"

\* initialize_input_hanlder has run, as the last step but two of the constructor
HandlerBound ==
  /\ m_tracked_keys' = MonitoredKeys
  /\ last_action' = [k \in ObservedKeys |-> "none"]
  /\ events' = << >>
  /\ last_change' = [k \in ObservedKeys |-> "none"]
  /\ event_since_poll' = [k \in ObservedKeys |-> "none"]
  /\ poll_captured' = FALSE
  /\ poll_parity' = 0
  /\ WantCaptureKeyboard' = FALSE
  /\ m_mod_speed' = FALSE
  /\ m_camera' = 0

\* Faulty variant: an existing instance is replaced instead of rejected.
HelperGetPlatform_Replace ==
  /\ constructed < MaxApplications
  /\ helper_call' = "get(platform)"
  /\ helper_calls' = 1 - helper_calls
  /\ constructed' = constructed + 1
  /\ m_instance' = constructed + 1
  /\ live_applications' = (live_applications \ {m_instance}) \cup {constructed + 1}
  /\ get_result' = Returned(constructed + 1)
  /\ ApplicationConstructed
  /\ HandlerBound
  /\ UNCHANGED platform_vars

\* get(platform) with a platform: std::invalid_argument when an instance
\* exists; else the application is constructed, which may throw, and stored
HelperGetPlatform ==
  /\ helper_call' = "get(platform)"
  /\ helper_calls' = 1 - helper_calls
  /\ IF m_instance # 0
       THEN /\ get_result' = Threw("invalid_argument")
            /\ UNCHANGED <<m_instance, live_applications, constructed>>
            /\ UNCHANGED <<render_vars, input_vars>>
       ELSE \/ /\ constructed < MaxApplications
               /\ constructed' = constructed + 1
               /\ m_instance' = constructed + 1
               /\ live_applications' = live_applications \cup {constructed + 1}
               /\ get_result' = Returned(constructed + 1)
               /\ ApplicationConstructed
               /\ HandlerBound
               /\ UNCHANGED platform_vars
            \/ /\ get_result' = Threw("error")
               /\ UNCHANGED <<m_instance, live_applications, constructed>>
               /\ UNCHANGED <<render_vars, input_vars>>

\* get() without a platform: the instance, or std::invalid_argument when there
\* is none
HelperGet ==
  /\ helper_call' = "get()"
  /\ helper_calls' = 1 - helper_calls
  /\ get_result' = IF m_instance = 0 THEN Threw("invalid_argument")
                                     ELSE Returned(m_instance)
  /\ UNCHANGED <<m_instance, live_applications, constructed>>
  /\ UNCHANGED <<render_vars, input_vars>>

\* destroy(): m_instance.reset() deletes the application, if there is one; no
\* thread is inside load_input_data then
HelperDestroy ==
  /\ lpc = LoaderIdle
  /\ helper_call' = "destroy()"
  /\ helper_calls' = 1 - helper_calls
  /\ get_result' = Returned(0)
  /\ m_instance' = 0
  /\ live_applications' = live_applications \ {m_instance}
  /\ UNCHANGED constructed
  /\ UNCHANGED <<render_vars, input_vars>>

\* A caller that got the instance loads geometry into it
InstanceLoads ==
  /\ m_instance # 0
  /\ \/ \E data \in InputData : LoadInputData(data)
     \/ LoadDrawInfoWrite
     \/ LoadDrawInfoPublish
     \/ LoadStore

\* The calls of the helper, and the loader working on the instance that exists
SingletonNext ==
  \/ HelperGetPlatform
  \/ HelperGet
  \/ HelperDestroy
  \/ InstanceLoads

SingletonSpec == SingletonInit /\ [][SingletonNext]_vars

\* A step that is a call of the singleton helper
HelperStep == helper_calls' # helper_calls

\* C35: at most one application exists at a time, and it is the one the helper
\* holds; get(platform) throws std::invalid_argument when an instance exists
\* and changes nothing then; get() throws it exactly when there is none, which
\* is so before the first get(platform) and after destroy(), and returns the
\* instance otherwise; when get(platform) stores an instance there was none
\* before, the instance is a new object, and the application is as its
\* constructor leaves it.
C35_SingletonLifecycle ==
  /\ [](/\ Cardinality(live_applications) <= 1
        /\ live_applications = IF m_instance = 0 THEN {} ELSE {m_instance})
  /\ [](helper_call \in {"none", "destroy()"} => m_instance = 0)
  /\ [][HelperStep /\ helper_call' = "get(platform)" /\ m_instance # 0 =>
          /\ get_result' = Threw("invalid_argument")
          /\ m_instance' = m_instance
          /\ UNCHANGED load_vars]_vars
  /\ [][HelperStep /\ helper_call' = "get()" =>
          /\ get_result' = Threw("invalid_argument") <=> m_instance = 0
          /\ m_instance # 0 => get_result' = Returned(m_instance)
          /\ m_instance' = m_instance]_vars
  /\ [][m_instance' \notin {0, m_instance} =>
          /\ m_instance = 0
          /\ helper_call' = "get(platform)"
          /\ m_instance' > constructed
          /\ get_result' = Returned(m_instance')
          /\ AppInit'
          /\ HandlerInit']_vars

\* After the first instance was destroyed, get(platform) has constructed and
\* returned a second one, which holds no geometry.
C35_Witness ==
  /\ helper_call = "get(platform)"
  /\ m_instance = 2
  /\ get_result = Returned(2)
  /\ ~m_data_loaded

\* ---------------------------------------------------------- queue families
\* What the choice of the queue families leaves alone
unqueued_vars == <<pc, m_curr_frame, sync_vars, gpu_queue, window_vars, swapchain_vars,
                   dependent_vars, command_vars, load_vars, frame_vars, rc_vars, trace,
                   copied, thrown, loop_vars, other_load_vars, frames_submitted,
                   input_vars, singleton_vars, instance_vars, layout_vars>>

\* The physical devices: one to MaxFamilies queue families, each with or
\* without graphics operations and with or without support for presenting to
\* the surface
QueueFamilyProperties == [graphics : BOOLEAN, present : BOOLEAN]
PhysicalDevices ==
  UNION {[1 .. n -> QueueFamilyProperties] : n \in 1 .. MaxFamilies}

\* The family indices 0, 1, ... of a device, in order
FamilyIndices(families) == [i \in 1 .. Len(families) |-> i - 1]

\* find_graphics_family_indices(p_device): the indices of the families whose
\* queueFlags hold eGraphics, ascending
find_graphics_family_indices(families) ==
  SelectSeq(FamilyIndices(families), LAMBDA i : families[i + 1].graphics)

\* find_present_family_indices(p_device, surface): the indices of the families
\* with getSurfaceSupportKHR, ascending
find_present_family_indices(families) ==
  SelectSeq(FamilyIndices(families), LAMBDA i : families[i + 1].present)

\* std::set_intersection of two ascending ranges
set_intersection(first, second) ==
  SelectSeq(first, LAMBDA x : \E j \in 1 .. Len(second) : second[j] = x)

\* A queue request of one queue of a family
QueueRequest(family) == [queueFamilyIndex |-> family, queueCount |-> 1]

\* front() of a vector; of an empty vector it is undefined: any index, here
\* one of 0 .. MaxFamilies
front(vector) == IF Len(vector) > 0 THEN {vector[1]} ELSE 0 .. MaxFamilies

\* The device the platform was given
QueueInit ==
  /\ AppInit
  /\ HandlerInit
  /\ HelperInitialized
  /\ InstanceCreated
  /\ NoLayout
  /\ queue_families \in PhysicalDevices
  /\ queues_pc = "start"
  /\ chosen_graphics = 0
  /\ chosen_present = 0
  /\ reqs = << >>

\* initialize_logical_device_queues, up to the construction of the logical
\* device: the choice of the families and the queue requests
InitializeLogicalDeviceQueues ==
  /\ queues_pc = "start"
  /\ LET graphics_queue_indices == find_graphics_family_indices(queue_families)
         present_queue_indices == find_present_family_indices(queue_families)
         intersection == set_intersection(graphics_queue_indices, present_queue_indices)
     IN IF Len(intersection) = 0
          THEN /\ chosen_graphics' \in front(graphics_queue_indices)
               /\ chosen_present' \in front(present_queue_indices)
               /\ reqs' = <<QueueRequest(chosen_graphics'), QueueRequest(chosen_present')>>
          ELSE /\ chosen_graphics' = intersection[1]
               /\ chosen_present' = intersection[1]
               /\ reqs' = <<QueueRequest(chosen_graphics')>>
  /\ queues_pc' = "done"
  /\ UNCHANGED queue_families
  /\ UNCHANGED unqueued_vars

\* The choice of the queue families of a device
QueueNext == InitializeLogicalDeviceQueues

QueueSpec == QueueInit /\ [][QueueNext]_vars

\* The families a device offers for graphics, for present, and for both
GraphicsFamilies == {i \in 0 .. Len(queue_families) - 1 : queue_families[i + 1].graphics}
PresentFamilies == {i \in 0 .. Len(queue_families) - 1 : queue_families[i + 1].present}
CommonFamilies == GraphicsFamilies \cap PresentFamilies
Lowest(S) == CHOOSE x \in S : \A y \in S : x <= y

\* C36 as stated: after the initialization the chosen graphics family supports
\* graphics and the chosen present family supports presenting; when a family
\* supports both, the lowest such family is chosen for both and one queue is
\* requested; otherwise the first graphics family and the first present family
\* are chosen and two requests are made.
C36_QueueFamilySelection ==
  queues_pc = "done" =>
    /\ chosen_graphics \in GraphicsFamilies
    /\ chosen_present \in PresentFamilies
    /\ IF CommonFamilies # {}
         THEN /\ chosen_graphics = Lowest(CommonFamilies)
              /\ chosen_present = chosen_graphics
              /\ reqs = <<QueueRequest(chosen_graphics)>>
         ELSE /\ chosen_graphics = Lowest(GraphicsFamilies)
              /\ chosen_present = Lowest(PresentFamilies)
              /\ reqs = <<QueueRequest(chosen_graphics), QueueRequest(chosen_present)>>

\* ---------------------------------------------------------------- instance
\* What the construction of the Vulkan instance leaves alone
uninstanced_vars == <<pc, m_curr_frame, sync_vars, gpu_queue, window_vars,
                      swapchain_vars, dependent_vars, command_vars, load_vars,
                      frame_vars, rc_vars, trace, copied, thrown, loop_vars,
                      other_load_vars, frames_submitted, input_vars, singleton_vars,
                      queue_vars, layout_vars>>

\* Names of instance extensions and of layers
ExtensionNames == {"VK_KHR_surface", "VK_EXT_debug_utils"}
LayerNames == {"VK_LAYER_KHRONOS_validation", "VK_LAYER_LUNARG_monitor"}

\* The sequences of at most MaxRequested names
Requests(names) == UNION {[1 .. n -> names] : n \in 0 .. MaxRequested}

\* The loop of supports_extensions and of supports_layers: every requested
\* name, in order, that std::find_if does not find among the supported ones
RECURSIVE missing_names(_, _)
missing_names(requested, supported) ==
  IF requested = << >> THEN << >>
  ELSE IF Head(requested) \in supported
         THEN missing_names(Tail(requested), supported)
         ELSE <<Head(requested)>> \o missing_names(Tail(requested), supported)

\* supports_extensions(start, finish, ctx), supports_layers(start, finish, ctx):
\* the pair of missing.empty() and missing
supports(requested, supported) ==
  LET missing == missing_names(requested, supported)
  IN [ok |-> missing = << >>, missing |-> missing]

\* The arguments of the constructor and what the Vulkan context supports
InstanceInit ==
  /\ AppInit
  /\ HandlerInit
  /\ HelperInitialized
  /\ QueuesInitialized
  /\ NoLayout
  /\ supported_extensions \in SUBSET ExtensionNames
  /\ supported_layers \in SUBSET LayerNames
  /\ requested_extensions \in Requests(ExtensionNames)
  /\ requested_layers \in Requests(LayerNames)
  /\ instance_pc = "start"
  /\ vk_instance = NullInstance
  /\ instance_error = NoError

\* Faulty variant: the layers are not tested.
InstanceConstructor_ExtensionsOnly ==
  /\ instance_pc = "start"
  /\ LET ext == supports(requested_extensions, supported_extensions)
     IN IF ~ext.ok
          THEN /\ instance_error' = [thrown |-> "unsupported_error", missing |-> ext.missing]
               /\ UNCHANGED vk_instance
          ELSE /\ vk_instance' = [created |-> TRUE, extensions |-> requested_extensions,
                                  layers |-> requested_layers]
               /\ UNCHANGED instance_error
  /\ instance_pc' = "done"
  /\ UNCHANGED <<supported_extensions, supported_layers, requested_extensions,
                 requested_layers>>
  /\ UNCHANGED uninstanced_vars

\* instance(ctx, app_info, ext_start, ext_finish, layers_start, layers_finish):
\* unsupported_error with the missing extensions followed by the missing
\* layers, or the creation of the vk::raii::Instance, which may throw
InstanceConstructor ==
  /\ instance_pc = "start"
  /\ LET ext == supports(requested_extensions, supported_extensions)
         layers == supports(requested_layers, supported_layers)
     IN IF ~ext.ok \/ ~layers.ok
          THEN /\ instance_error' = [thrown |-> "unsupported_error",
                                     missing |-> ext.missing \o layers.missing]
               /\ UNCHANGED vk_instance
          ELSE \/ /\ vk_instance' = [created |-> TRUE,
                                     extensions |-> requested_extensions,
                                     layers |-> requested_layers]
                  /\ UNCHANGED instance_error
               \/ /\ instance_error' = [thrown |-> "vk::SystemError", missing |-> << >>]
                  /\ UNCHANGED vk_instance
  /\ instance_pc' = "done"
  /\ UNCHANGED <<supported_extensions, supported_layers, requested_extensions,
                 requested_layers>>
  /\ UNCHANGED uninstanced_vars

\* The construction of the Vulkan instance
InstanceNext == InstanceConstructor

InstanceSpec == InstanceInit /\ [][InstanceNext]_vars

\* The places of a request whose name is not supported
Unsupported(requested, supported) ==
  {i \in 1 .. Len(requested) : requested[i] \notin supported}

\* C37: the constructor ends with unsupported_error exactly when a requested
\* extension or a requested layer is not supported; missing() then lists the
\* unsupported requested extensions in the order of the request, one entry per
\* unsupported place, followed by the unsupported requested layers, and no
\* instance is created; an instance that is created has every requested name.
C37_UnsupportedError ==
  instance_pc = "done" =>
    LET ue == Unsupported(requested_extensions, supported_extensions)
        ul == Unsupported(requested_layers, supported_layers)
        missing == instance_error.missing
    IN /\ instance_error.thrown = "unsupported_error" <=> ue \cup ul # {}
       /\ instance_error.thrown = "unsupported_error" =>
             /\ ~vk_instance.created
             /\ Len(missing) = Cardinality(ue) + Cardinality(ul)
             /\ SubSeq(missing, 1, Cardinality(ue)) =
                   SelectSeq(requested_extensions, LAMBDA e : e \notin supported_extensions)
             /\ SubSeq(missing, Cardinality(ue) + 1, Len(missing)) =
                   SelectSeq(requested_layers, LAMBDA l : l \notin supported_layers)
       /\ vk_instance.created =>
             /\ instance_error = NoError
             /\ vk_instance.extensions = requested_extensions
             /\ vk_instance.layers = requested_layers

\* The constructor threw for a request with an unsupported extension, a
\* supported one and an unsupported layer.
C37_Witness ==
  /\ instance_pc = "done"
  /\ instance_error.thrown = "unsupported_error"
  /\ Len(requested_extensions) = 2
  /\ requested_extensions[1] \notin supported_extensions
  /\ requested_extensions[2] \in supported_extensions
  /\ Len(instance_error.missing) = 2
  /\ instance_error.missing[2] \in LayerNames

\* --------------------------------------------------- descriptor set layout
\* What create_decriptor_set_layout leaves alone
unbound_vars == <<pc, m_curr_frame, sync_vars, gpu_queue, window_vars, swapchain_vars,
                  dependent_vars, command_vars, load_vars, frame_vars, rc_vars, trace,
                  copied, thrown, loop_vars, other_load_vars, frames_submitted,
                  input_vars, singleton_vars, queue_vars, instance_vars>>

\* The tuples of p_binding_data: descriptor type, descriptor count, stage flags
BindingData ==
  [type : {"eUniformBuffer", "eCombinedImageSampler"},
   count : 1 .. MaxDescriptors,
   stage : {"eVertex", "eFragment"}]

\* vk::DescriptorSetLayoutBinding{binding, descriptorType, descriptorCount,
\* stageFlags}
DescriptorSetLayoutBinding(binding_, descriptorType_, descriptorCount_, stageFlags_) ==
  [binding |-> binding_, descriptorType |-> descriptorType_,
   descriptorCount |-> descriptorCount_, stageFlags |-> stageFlags_]

\* A value-initialized vk::DescriptorSetLayoutBinding, but for its binding
DefaultLayoutBinding(binding_) ==
  DescriptorSetLayoutBinding(binding_, "eSampler", 0, "none")

\* std::vector<vk::DescriptorSetLayoutBinding> bindings{uint32_t(size)}: where
\* the struct has its converting constructor this is the list of one element,
\* the binding made from the number; where the struct is an aggregate it is
\* the vector of that many value-initialized elements
bindings_initial(size, with_constructors) ==
  IF with_constructors THEN <<DefaultLayoutBinding(size)>>
                       ELSE [i \in 1 .. size |-> DefaultLayoutBinding(0)]

\* The loop of push_back over p_binding_data, from element i on
RECURSIVE push_back_bindings(_, _, _)
push_back_bindings(vector, binding_data, i) ==
  IF i >= Len(binding_data) THEN vector
  ELSE push_back_bindings(
         Append(vector, DescriptorSetLayoutBinding(i, binding_data[i + 1].type,
                                                   binding_data[i + 1].count,
                                                   binding_data[i + 1].stage)),
         binding_data, i + 1)

\* The binding data a caller gives, in either build
LayoutInit ==
  /\ AppInit
  /\ HandlerInit
  /\ HelperInitialized
  /\ QueuesInitialized
  /\ InstanceCreated
  /\ p_binding_data \in UNION {[1 .. n -> BindingData] : n \in 0 .. MaxBindings}
  /\ struct_constructors \in BOOLEAN
  /\ bindings = << >>
  /\ layout_pc = "start"

\* create_decriptor_set_layout(p_device, p_binding_data, p_flags), up to the
\* creation of the layout from bindings
CreateDecriptorSetLayout ==
  /\ layout_pc = "start"
  /\ bindings' = push_back_bindings(
                   bindings_initial(Len(p_binding_data), struct_constructors),
                   p_binding_data, 0)
  /\ layout_pc' = "done"
  /\ UNCHANGED <<p_binding_data, struct_constructors>>
  /\ UNCHANGED unbound_vars

\* The creation of a descriptor set layout
LayoutNext == CreateDecriptorSetLayout

LayoutSpec == LayoutInit /\ [][LayoutNext]_vars

\* C38 as stated: the binding list of the layout has one entry per element of
\* p_binding_data, and entry i has the binding number i and the type, the count
\* and the stage flags of element i.
C38_OneBindingPerElement ==
  layout_pc = "done" =>
    /\ Len(bindings) = Len(p_binding_data)
    /\ \A i \in 1 .. Len(p_binding_data) :
          /\ i <= Len(bindings)
          /\ bindings[i] = DescriptorSetLayoutBinding(i - 1, p_binding_data[i].type,
                                                      p_binding_data[i].count,
                                                      p_binding_data[i].stage)

====
